---- MODULE Spec2Model ----
(***************************************************************************)
(* Verification model of the BotCrypto ingestion-and-storage engine:       *)
(*   - DatasetWriter (app/binance_backfill.py): idempotent JSONL upserts   *)
(*     and the temp-file + rename flush;                                   *)
(*   - BinanceBackfillJob (app/binance_backfill.py): the four cursor loops;*)
(*   - RateLimiter (app/binance_futures_ingest.py): sliding window.        *)
(* Three specifications share the module: SpecWriter, SpecBackfill (and    *)
(* its variants SpecLive, SpecRerun) and SpecLimiter.                      *)
(***************************************************************************)
EXTENDS Integers, Sequences, FiniteSets, TLC

\* ---------------------------------------------------------------- bounds
WMaxKey == 1        \* SpecWriter: natural keys are 0..WMaxKey
MaxBatch == 2       \* longest batch handed to upsert_many / returned by a fetch (the limit)
MaxTime == 4        \* SpecBackfill: keys and timestamps are 0..MaxTime
IntervalMs == 1     \* _interval_to_milliseconds(config.interval), in model time units
PeriodMs == 1       \* _interval_to_milliseconds(config.open_interest_period)
HourMs == 1         \* one hour (the trade window slice; funding windows are 8 hours per row)
NCallers == 2       \* SpecLimiter: tasks sharing one RateLimiter
MaxLiveKey == 2     \* SpecLoop: keys of live records are 0..MaxLiveKey
MaxDuration == 3    \* SpecWait: durations are -1..MaxDuration seconds
MaxWaits == 2       \* SpecWait: calls of _wait_or_sleep
MaxUpserts == 2     \* SpecRepo: upserts made by the callers together
MaxRunKey == 2      \* SpecRun: the window of a run is 1..MaxRunKey
MaxFetches == 12    \* SpecRun: fetch calls of one run
ExEnd == 6          \* SpecExchange: the window of the run is ExStart..ExEnd
MaxRows == 3        \* SpecExchange: rows the exchange holds
MaxStarts == 2      \* SpecService: start() calls that create tasks
MaxFailures == 9    \* SpecService: failed loop iterations
MaxConnects == 10   \* SpecStream: connection attempts of one stream
MaxMessages == 2    \* SpecStream: messages delivered by one connection
MaxRetries == 3     \* SpecRest: max_retries is 1..MaxRetries
MaxCalls == 2       \* SpecRest: fetch calls made on one client
FloatMaxExp == 8    \* factor ** attempts leaves the float range at 2^FloatMaxExp (1024 for a double)
MaxClock == 3       \* SpecLimiter: the clock runs 0..MaxClock
Capacity == 2       \* RateLimiter(capacity=...)
Interval == 2       \* RateLimiter(interval=...)

\* Optional[int] = None for keys and cursors
NoKey == -1

VARIABLES
    \* DatasetWriter fields
    records,         \* self._records: insertion-ordered dict, as a sequence of records
    max_key,         \* self._max_key
    dirty,           \* self._dirty
    \* the file system
    file,            \* lines of the dataset file (<<>>: missing or empty)
    tmp,             \* lines of the ".tmp" sibling while a flush is in progress
    \* flush() locals
    sorted_records,  \* sorted_records of the flush in progress (of the last one afterwards)
    committed,       \* complete content written by the last finished flush (initially the file found)
    \* control
    pc,              \* position of the single thread of control
    ret,             \* where flush() returns to
    \* upsert_many() result and call history
    stats,           \* UpsertStats of the last upsert_many call
    last_batch,      \* argument of the last upsert_many call, while the caller still holds it
    repeat,          \* the last upsert_many call repeated the call before it
    \* BinanceBackfillConfig
    kind,            \* which of _run_candles, _run_trades, _run_open_interest, _run_funding runs
    resume,          \* config.resume
    start_ms,        \* _datetime_to_milliseconds(config.start_time)
    end_ms,          \* _datetime_to_milliseconds(config.end_time)
    \* locals of the _run_* loop
    cursor,
    from_id,
    filtered,        \* `records`: the filtered batch of the iteration in progress
    report,          \* DataTypeReport
    metrics,         \* IngestionMetrics._metrics[kind]
    \* history of the run
    fetches,         \* number of fetch calls of this run
    batch_len,       \* len(batch) of the last response
    passed,          \* the in-range records of every window the cursor has moved past
    file0,           \* the dataset file found when the job started
    run,             \* 1: first run, 2: the run repeated with resume enabled
    served,          \* responses of the first run, replayed to the second (SpecRerun only)
    \* RateLimiter and its callers
    clock,           \* self._clock() / the event loop's time
    events,          \* self._events
    lock,            \* holder of self._lock, 0 when free
    lpc,             \* position of each caller inside acquire()
    lnow,            \* `now` of each caller
    lweight,         \* `weight` of each caller
    lwake,           \* when each sleeping caller's sleep(wait_time) ends
    grants,          \* every granted unit that is younger than interval, by grant time
    \* one ExponentialBackoff and its caller
    backoff,         \* [initial, factor, maximum, attempts]: the fields of the instance
    delay,           \* the value the last next_delay() returned, NoKey before the first
    raised,          \* the last next_delay() raised OverflowError
    calls,           \* next_delay() calls since construction or the last reset()
    last_delay,      \* the value returned by the call before, NoKey if none since the reset
    \* one REST client (live or backfill) and the fetch call in progress
    rclient,         \* the client as constructed: kind, max_retries, retry set, weights, backoff
    rpc,             \* idle, loop, acquire, returned, rest_error, raised
    rop,             \* the operation of the call: klines, open_interest, funding
    attempt,         \* the attempt counter of _get
    rbackoff,        \* the local variable backoff of the live _get
    rsleeps,         \* the sleeps of this call between attempts, in order
    routs,           \* what each GET of this call ended with, in order
    gets,            \* GETs issued by this call
    rcalls,          \* fetch calls made on the client
    \* one trade stream of BinanceAggTradeWebSocket
    spc,             \* top, connecting, reading, yielded, sleep, ended, raised
    has_stop,        \* stream() was given a stop_event
    stop_set,        \* the stop_event is set
    sbackoff,        \* the ExponentialBackoff of the stream
    sdelay,          \* the last delay computed by the stream
    selapsed,        \* the delay of the sleep in progress has elapsed
    smsgs,           \* messages delivered by the current connection
    slast,           \* the last thing the connection delivered
    strades,         \* trades yielded
    sfails,          \* failed connection attempts since the last established connection
    sconnects,       \* connection attempts made
    \* one BinanceFuturesIngestionService, its loop tasks and the caller of start/stop
    tasks,           \* self._tasks: the listed tasks, each <<symbol, loop kind>>
    tpc,             \* per task: none, poll, stream, insert, wait, done, cancelled, failed
    tattempts,       \* per task: the attempts of the loop's ExponentialBackoff
    stop_event,      \* self._stop_event is set
    gpc,             \* idle, or stopping while stop() awaits a task
    gidx,            \* the index in self._tasks of the task stop() awaits
    gres,            \* how the last start() or stop() ended
    gstarts,         \* start() calls that created tasks
    gfails,          \* iterations that ended with an exception
    \* one live loop of the service, with the waits it asks for
    ploop,           \* candles, open_interest, funding or trades
    pinterval,       \* the poll interval configured for the loop
    pstop,           \* the stop flag as this loop sees it
    pstore,          \* keys the repository holds for the loop's symbol and kind
    ppc,             \* none, poll, stream, insert, wait, done, failed
    pstart,          \* start_time of the poll in progress or last made, NoKey for none
    pattempts,       \* attempts of the loop's ExponentialBackoff
    pwait,           \* the duration last passed to _wait_or_sleep, NoKey before the first
    plast,           \* how the last iteration step ended
    ptrade,          \* the trade id being written by the trade loop
    \* one caller of _wait_or_sleep
    zpc,             \* idle, wait (in asyncio.wait), returned, cancelled
    zstop,           \* self._stop_event is set
    duration,        \* the argument of the call
    zelapsed,        \* seconds since the call
    zset_at,         \* zelapsed when the flag was set, 0 if before the call, NoKey if unset
    stop_task,       \* none, pending, done, cancelled
    sleep_task,      \* none, pending, done, cancelled
    zcalls,          \* calls made
    \* TimescaleRepository in memory mode and its callers
    mstore,          \* the four stores: (store, symbol key) -> bucket of records
    fwriter,         \* the DatasetWriter of each (kind, symbol): records and max_key
    memory_lock,     \* self._memory_lock: 0 when free, else the caller holding it
    mpc,             \* per caller: idle, called, waiting, inside, done
    mreq,            \* per caller: the store, symbol and records of its call
    mlog,            \* the upserts in the order they were applied
    \* BinanceBackfillJob.run
    include,         \* the kinds with config.include_* set
    jrun,            \* 1: a run, 2: the run made afterwards with resume enabled
    jresume,         \* config.resume
    jpc,             \* try, fetch, transform, write, kind_done, finally, returned, raised
    jidx,            \* position in KindOrder of the kind that runs, 0 before the first
    jcursor,         \* cursor of the kind that runs
    jfrom_id,        \* from_id of _run_trades
    jfiles,          \* per kind the keys in its dataset file
    jfiles0,         \* the dataset files found when the run began
    jbatch,          \* keys of the batch fetched last
    closes,          \* calls of self._client.close() in this run
    jerr,            \* none, or what raised: fetch, transform, write
    reports,         \* the kinds with an entry in `reports`
    jfetches,        \* fetch calls of this run
    jsnap,           \* fetches, files and reports when the run failed
    jfirst,          \* per kind the start_time and from_id of its first request in this run
    \* one _run_* loop against an exchange with fixed rows
    ekind,           \* the kind of the loop
    eperiod,         \* period_ms of _run_open_interest
    elimit,          \* config.*_limit
    edata,           \* the rows the exchange holds, ascending
    ecursor,         \* cursor
    epc,             \* loop, returned, raised
    ewindows,        \* the requested windows <<start_time, end_time>>, in order
    efile,           \* keys in the dataset file
    elast            \* how the last iteration ended: empty, raised, rows

wvars == <<records, max_key, dirty, file, tmp, sorted_records, committed,
           pc, ret, stats, last_batch, repeat>>

wvars_but_pc == <<records, max_key, dirty, file, tmp, sorted_records, committed,
                  ret, stats, last_batch, repeat>>

bvars == <<kind, resume, start_ms, end_ms, cursor, from_id, filtered, report, metrics,
           fetches, batch_len, passed, file0, run, served>>

lvars == <<clock, events, lock, lpc, lnow, lweight, lwake, grants>>

kvars == <<backoff, delay, raised, calls, last_delay>>

rvars == <<rclient, rpc, rop, attempt, rbackoff, rsleeps, routs, gets, rcalls>>

svars == <<spc, has_stop, stop_set, sbackoff, sdelay, selapsed, smsgs, slast, strades, sfails, sconnects>>

gvars == <<tasks, tpc, tattempts, stop_event, gpc, gidx, gres, gstarts, gfails>>

pvars == <<ploop, pinterval, pstop, pstore, ppc, pstart, pattempts, pwait, plast, ptrade>>

zvars == <<zpc, zstop, duration, zelapsed, zset_at, stop_task, sleep_task, zcalls>>

mvars == <<mstore, fwriter, memory_lock, mpc, mreq, mlog>>

jvars == <<include, jrun, jresume, jpc, jidx, jcursor, jfrom_id, jfiles, jfiles0, jbatch, closes, jerr,
          reports, jfetches, jsnap, jfirst>>

evars == <<ekind, eperiod, elimit, edata, ecursor, epc, ewindows, efile, elast>>

yvars == <<pvars, zvars, mvars, jvars, evars>>

xvars == <<kvars, rvars, svars, gvars, yvars>>

vars == <<wvars, bvars, lvars, xvars>>

\* ------------------------------------------------------------- sequences
Range(s) == {s[i] : i \in 1..Len(s)}

SeqsUpTo(S, n) == UNION {[1..m -> S] : m \in 0..n}

Max(a, b) == IF a >= b THEN a ELSE b
Min(a, b) == IF a <= b THEN a ELSE b

MaxOf(S) == CHOOSE x \in S : \A y \in S : y <= x

\* --------------------------------------------------------------- records
\* A record is a mapping with its key field, its range field (the trade
\* timestamp; the key itself for the other kinds) and the remaining payload.
Rec(k, t, v) == [key |-> k, ts |-> t, val |-> v]

\* json.dumps(record, sort_keys=True): one text line per record
Encode(rec) == <<rec.key, rec.ts, rec.val>>

\* json.loads(payload)
Decode(line) == [key |-> line[1], ts |-> line[2], val |-> line[3]]

RECURSIVE EncodeAll(_)
EncodeAll(recs) ==
    IF recs = <<>> THEN <<>> ELSE <<Encode(Head(recs))>> \o EncodeAll(Tail(recs))

KeysOf(recs) == {recs[i].key : i \in 1..Len(recs)}

\* self._records.get(key): position of the entry, 0 for None
IndexOfKey(recs, k) ==
    IF \E i \in 1..Len(recs) : recs[i].key = k
    THEN CHOOSE i \in 1..Len(recs) : recs[i].key = k
    ELSE 0

ZeroStats == [inserted |-> 0, updated |-> 0, unchanged |-> 0]

\* A key whose text int() rejects (ValueError); it sorts after every numeric key.
NonNumericKey == 99

\* DatasetWriter._safe_int(key): the integer, None when int() raises
SafeInt(k) == IF k = NonNumericKey THEN NoKey ELSE k

\* if numeric_key is not None: if self._max_key is None or numeric_key > self._max_key
RaiseMaxKey(mk, numeric_key) ==
    IF numeric_key = NoKey THEN mk
    ELSE IF mk = NoKey \/ numeric_key > mk THEN numeric_key ELSE mk

\* ------------------------------------------------- DatasetWriter.upsert_many
\* Body of the for loop, with the classification "any present key is an update".
UpsertRecordNoCompare(w, rec) ==
    LET idx == IndexOfKey(w.records, rec.key) IN
    [records |-> IF idx = 0 THEN Append(w.records, rec)
                 ELSE [w.records EXCEPT ![idx] = rec],
     max_key |-> RaiseMaxKey(w.max_key, SafeInt(rec.key)),
     dirty   |-> TRUE,
     stats   |-> IF idx = 0 THEN [w.stats EXCEPT !.inserted = @ + 1]
                 ELSE [w.stats EXCEPT !.updated = @ + 1]]

\* Body of the for loop, keeping the first value written for a key.
UpsertRecordKeepFirst(w, rec) ==
    LET idx == IndexOfKey(w.records, rec.key) IN
    IF idx # 0 /\ w.records[idx] = rec
    THEN [w EXCEPT !.stats.unchanged = @ + 1]
    ELSE [records |-> IF idx = 0 THEN Append(w.records, rec) ELSE w.records,
          max_key |-> RaiseMaxKey(w.max_key, SafeInt(rec.key)),
          dirty   |-> TRUE,
          stats   |-> IF idx = 0 THEN [w.stats EXCEPT !.inserted = @ + 1]
                      ELSE [w.stats EXCEPT !.updated = @ + 1]]

\* Body of the for loop of upsert_many for one record.
UpsertRecord(w, rec) ==
    LET idx == IndexOfKey(w.records, rec.key) IN
    IF idx # 0 /\ w.records[idx] = rec
    THEN [w EXCEPT !.stats.unchanged = @ + 1]
    ELSE [records |-> IF idx = 0 THEN Append(w.records, rec)
                      ELSE [w.records EXCEPT ![idx] = rec],
          max_key |-> RaiseMaxKey(w.max_key, SafeInt(rec.key)),
          dirty   |-> TRUE,
          stats   |-> IF idx = 0 THEN [w.stats EXCEPT !.inserted = @ + 1]
                      ELSE [w.stats EXCEPT !.updated = @ + 1]]

RECURSIVE UpsertLoop(_, _)
UpsertLoop(w, batch) ==
    IF batch = <<>> THEN w ELSE UpsertLoop(UpsertRecord(w, Head(batch)), Tail(batch))

\* upsert_many(records) on the writer state (recs, mk, d): new fields and stats
UpsertMany(recs, mk, d, batch) ==
    UpsertLoop([records |-> recs, max_key |-> mk, dirty |-> d, stats |-> ZeroStats], batch)

\* --------------------------------------------------------- DatasetWriter._load
RECURSIVE LoadLines(_, _)
LoadLines(recs, lines) ==
    IF lines = <<>> THEN recs
    ELSE LET rec == Decode(Head(lines))
             idx == IndexOfKey(recs, rec.key)
         IN LoadLines(IF idx = 0 THEN Append(recs, rec) ELSE [recs EXCEPT ![idx] = rec],
                      Tail(lines))

LoadRecords(lines) == LoadLines(<<>>, lines)

\* numeric_values of _load: the keys _safe_int converts
NumericValues(recs) == {SafeInt(k) : k \in KeysOf(recs)} \ {NoKey}

\* _load keeping the key of the last line read
LoadMaxKeyLast(recs) == IF recs = <<>> THEN NoKey ELSE SafeInt(recs[Len(recs)].key)

\* if self._records: ... if numeric_values: self._max_key = max(numeric_values)
LoadMaxKey(recs) ==
    IF recs = <<>> \/ NumericValues(recs) = {} THEN NoKey ELSE MaxOf(NumericValues(recs))

\* ---------------------------------------------------------- DatasetWriter.flush
\* sorted(self._records.values(), key=...) replaced by the dict's own order
UnsortedRecords(recs) == recs

RECURSIVE InsertSorted(_, _)
InsertSorted(sorted, rec) ==
    IF sorted = <<>> THEN <<rec>>
    ELSE IF rec.key < Head(sorted).key THEN <<rec>> \o sorted
    ELSE <<Head(sorted)>> \o InsertSorted(Tail(sorted), rec)

RECURSIVE SortFrom(_, _)
SortFrom(sorted, recs) ==
    IF recs = <<>> THEN sorted ELSE SortFrom(InsertSorted(sorted, Head(recs)), Tail(recs))

\* sorted(self._records.values(), key=lambda entry: entry[self.key_field]) (stable)
SortedRecords(recs) == SortFrom(<<>>, recs)

\* flush() that returns at once, whether or not records changed
FlushSkipped ==
    /\ pc = "flush"
    /\ pc' = ret
    /\ UNCHANGED <<records, max_key, dirty, file, tmp, sorted_records, committed,
                   ret, stats, last_batch, repeat>>
    /\ UNCHANGED <<bvars, lvars, xvars>>

\* flush() entered: nothing to do when clean, else sort and create the temp file
FlushBegin ==
    /\ pc = "flush"
    /\ IF ~dirty
       THEN /\ pc' = ret
            /\ UNCHANGED <<sorted_records, tmp, committed>>
       ELSE /\ sorted_records' = SortedRecords(records)
            /\ tmp' = <<>>
            /\ committed' = committed
            /\ pc' = "flush_write"
    /\ UNCHANGED <<records, max_key, dirty, file, ret, stats, last_batch, repeat>>
    /\ UNCHANGED <<bvars, lvars, xvars>>

\* Destination of one written line: the dataset file itself instead of the temp file
WriteLineInPlace(f, t, line) == [file |-> Append(IF t = <<>> THEN <<>> ELSE f, line),
                                 tmp |-> Append(t, line)]

\* handle.write(json.dumps(record)); handle.write("\n") goes to the temp file
WriteLine(f, t, line) == [file |-> f, tmp |-> Append(t, line)]

\* one iteration of the write loop; leaving the with block closes the temp file
FlushWrite ==
    /\ pc = "flush_write"
    /\ Len(tmp) < Len(sorted_records)
    /\ LET out == WriteLine(file, tmp, Encode(sorted_records[Len(tmp) + 1])) IN
          /\ file' = out.file
          /\ tmp' = out.tmp
          /\ pc' = IF Len(out.tmp) = Len(sorted_records) THEN "flush_rename" ELSE "flush_write"
    /\ UNCHANGED <<records, max_key, dirty, sorted_records, committed, ret, stats,
                   last_batch, repeat>>
    /\ UNCHANGED <<bvars, lvars, xvars>>

\* tmp_path.replace(self._path); self._dirty = False
FlushRename ==
    /\ pc = "flush_rename"
    /\ file' = tmp
    /\ tmp' = <<>>
    /\ dirty' = FALSE
    /\ committed' = EncodeAll(sorted_records)
    /\ pc' = ret
    /\ UNCHANGED <<records, max_key, sorted_records, ret, stats, last_batch, repeat>>
    /\ UNCHANGED <<bvars, lvars, xvars>>

\* ------------------------------------------------------------ SpecWriter
WKeys == 0..WMaxKey
\* Payloads are only ever compared for equality: two of them tell equal from different.
Vals == {"a", "b"}
\* Records of every numeric key with either payload, and one record whose key
\* is not numeric.
WRecs == {Rec(k, k, v) : k \in WKeys, v \in Vals} \cup {Rec(NonNumericKey, NonNumericKey, "a")}
WBatches == SeqsUpTo(WRecs, MaxBatch)

\* Files a previous run can have left: sorted by key, one line per key.
IsSortedFile(lines) == \A i \in 1..(Len(lines) - 1) : lines[i][1] < lines[i + 1][1]

WFiles == {EncodeAll(b) : b \in {s \in SeqsUpTo(WRecs, WMaxKey + 1) : IsSortedFile(EncodeAll(s))}}

ZeroReport == [batches |-> 0, fetched |-> 0, inserted |-> 0, updated |-> 0,
               unchanged |-> 0, earliest_key |-> NoKey, latest_key |-> NoKey]

ZeroMetrics == [batches |-> 0, records |-> 0, inserted |-> 0, updated |-> 0]

Callers == 1..NCallers

\* SpecWriter and SpecBackfill use no RateLimiter.
NoLimiter ==
    /\ clock = 0
    /\ events = <<>>
    /\ lock = 0
    /\ lpc = [c \in Callers |-> "idle"]
    /\ lnow = [c \in Callers |-> 0]
    /\ lweight = [c \in Callers |-> 0]
    /\ lwake = [c \in Callers |-> 0]
    /\ grants = <<>>

\* SpecWriter runs no backfill job.
NoBackfill ==
    /\ kind = "none"
    /\ resume = FALSE
    /\ start_ms = 0
    /\ end_ms = 0
    /\ cursor = NoKey
    /\ from_id = NoKey
    /\ filtered = <<>>
    /\ report = ZeroReport
    /\ metrics = ZeroMetrics
    /\ fetches = 0
    /\ batch_len = 0
    /\ passed = {}
    /\ file0 = <<>>
    /\ run = 1
    /\ served = <<>>

\* DatasetWriter(path, key_field=...): __init__ and _load
NewWriter(lines) ==
    /\ records' = LoadRecords(lines)
    /\ max_key' = LoadMaxKey(LoadRecords(lines))
    /\ dirty' = FALSE

\* no ExponentialBackoff in use
NoBackoff ==
    /\ backoff = [initial |-> 1, factor |-> 1, maximum |-> 1, attempts |-> 0]
    /\ delay = NoKey
    /\ raised = FALSE
    /\ calls = 0
    /\ last_delay = NoKey

\* the live components (backoff, REST client, streamer, service) are not in use
\* no REST client in use
NoRest ==
    /\ rclient = [kind |-> "none"]
    /\ rpc = "idle"
    /\ rop = "none"
    /\ attempt = 0
    /\ rbackoff = 0
    /\ rsleeps = <<>>
    /\ routs = <<>>
    /\ gets = 0
    /\ rcalls = 0

\* ExponentialBackoff(initial=1.0, factor=2.0, maximum=30.0)
StreamBackoff == [initial |-> 1, factor |-> 2, maximum |-> 30, attempts |-> 0]

\* no trade stream in use
NoStream ==
    /\ spc = "none"
    /\ has_stop = FALSE
    /\ stop_set = FALSE
    /\ sbackoff = StreamBackoff
    /\ sdelay = NoKey
    /\ selapsed = FALSE
    /\ smsgs = 0
    /\ slast = "none"
    /\ strades = 0
    /\ sfails = 0
    /\ sconnects = 0

\* symbols
Symbols == {"BTCUSDT"}

LoopKinds == {"candles", "open_interest", "funding", "trades"}

\* the tasks start() appends for one symbol, in order
TasksOf(s) == <<<<s, "candles">>, <<s, "open_interest">>, <<s, "funding">>, <<s, "trades">>>>

TaskIds == Symbols \X LoopKinds

\* no ingestion service in use
NoService ==
    /\ tasks = <<>>
    /\ tpc = [id \in TaskIds |-> "none"]
    /\ tattempts = [id \in TaskIds |-> 0]
    /\ stop_event = FALSE
    /\ gpc = "none"
    /\ gidx = 0
    /\ gres = "none"
    /\ gstarts = 0
    /\ gfails = 0

\* no single loop in use
NoLoop ==
    /\ ploop = "none"
    /\ pinterval = 0
    /\ pstop = FALSE
    /\ pstore = {}
    /\ ppc = "none"
    /\ pstart = NoKey
    /\ pattempts = 0
    /\ pwait = NoKey
    /\ plast = "none"
    /\ ptrade = NoKey

\* the components modelled after the service are not in use
\* no call of _wait_or_sleep
NoWait ==
    /\ zpc = "none"
    /\ zstop = FALSE
    /\ duration = 0
    /\ zelapsed = 0
    /\ zset_at = NoKey
    /\ stop_task = "none"
    /\ sleep_task = "none"
    /\ zcalls = 0

\* no repository in use
NoRepo ==
    /\ mstore = <<>>
    /\ fwriter = <<>>
    /\ memory_lock = 0
    /\ mpc = <<>>
    /\ mreq = <<>>
    /\ mlog = <<>>

\* no backfill run
NoRun ==
    /\ include = {}
    /\ jrun = 0
    /\ jresume = FALSE
    /\ jpc = "none"
    /\ jidx = 0
    /\ jcursor = NoKey
    /\ jfrom_id = NoKey
    /\ jfiles = <<>>
    /\ jfiles0 = <<>>
    /\ jbatch = {}
    /\ closes = 0
    /\ jerr = "none"
    /\ reports = {}
    /\ jfetches = 0
    /\ jsnap = <<>>
    /\ jfirst = <<>>

\* no loop against the fixed exchange
NoExchange ==
    /\ ekind = "none"
    /\ eperiod = 0
    /\ elimit = 0
    /\ edata = <<>>
    /\ ecursor = NoKey
    /\ epc = "none"
    /\ ewindows = <<>>
    /\ efile = {}
    /\ elast = "none"

NoLater == NoLoop /\ NoWait /\ NoRepo /\ NoRun /\ NoExchange

NoLive == NoBackoff /\ NoRest /\ NoStream /\ NoService /\ NoLater

InitWriter ==
    /\ file \in WFiles
    /\ tmp = <<>>
    /\ records = LoadRecords(file)
    /\ max_key = LoadMaxKey(LoadRecords(file))
    /\ dirty = FALSE
    /\ sorted_records = LoadRecords(file)
    /\ committed = file
    /\ pc = "idle"
    /\ ret = "idle"
    /\ stats = ZeroStats
    /\ last_batch = <<>>
    /\ repeat = FALSE
    /\ NoBackfill
    /\ NoLimiter
    /\ NoLive

\* writer.upsert_many(batch). At "called" the caller still holds the batch of
\* the previous call and passes it again.
DoUpsertMany ==
    /\ pc \in {"idle", "called"}
    /\ \E batch \in (IF pc = "called" THEN {last_batch} ELSE WBatches) :
          LET w == UpsertMany(records, max_key, dirty, batch) IN
          /\ records' = w.records
          /\ max_key' = w.max_key
          /\ dirty' = w.dirty
          /\ stats' = w.stats
          /\ last_batch' = batch
    /\ repeat' = (pc = "called")
    /\ pc' = "called"
    /\ UNCHANGED <<file, tmp, sorted_records, committed, ret>>
    /\ UNCHANGED <<bvars, lvars, xvars>>

\* The caller drops the batch and the stats of its last call.
Forget ==
    /\ pc = "called"
    /\ pc' = "idle"
    /\ last_batch' = <<>>
    /\ stats' = ZeroStats
    /\ repeat' = FALSE
    /\ UNCHANGED <<records, max_key, dirty, file, tmp, sorted_records, committed, ret>>
    /\ UNCHANGED <<bvars, lvars, xvars>>

\* writer.flush() is called
CallFlush ==
    /\ pc \in {"idle", "called"}
    /\ pc' = "flush"
    /\ ret' = pc
    /\ UNCHANGED <<records, max_key, dirty, file, tmp, sorted_records, committed,
                   stats, last_batch, repeat>>
    /\ UNCHANGED <<bvars, lvars, xvars>>

\* A new DatasetWriter is constructed on the same path and the old one dropped.
\* A batch that was upserted and flushed stays held across the reload.
Reload ==
    /\ pc \in {"idle", "called"}
    /\ NewWriter(file)
    /\ pc' = IF dirty THEN "idle" ELSE pc
    /\ last_batch' = IF dirty THEN <<>> ELSE last_batch
    /\ stats' = ZeroStats
    /\ repeat' = FALSE
    /\ UNCHANGED <<file, tmp, sorted_records, committed, ret>>
    /\ UNCHANGED <<bvars, lvars, xvars>>

NextWriter ==
    \/ DoUpsertMany
    \/ Forget
    \/ CallFlush
    \/ FlushBegin
    \/ FlushWrite
    \/ FlushRename
    \/ Reload

SpecWriter == InitWriter /\ [][NextWriter]_vars

\* ------------------------------------------------------ claims: DatasetWriter
\* What upsert_many sees as `existing` when it processes batch[i]: the latest
\* earlier entry of the batch with that key, else the entry of the map before
\* the call, else nothing (<<>>).
ExistingAt(pre, batch, i) ==
    LET earlier == {j \in 1..(i - 1) : batch[j].key = batch[i].key} IN
    IF earlier # {} THEN <<batch[MaxOf(earlier)]>>
    ELSE IF IndexOfKey(pre, batch[i].key) # 0 THEN <<pre[IndexOfKey(pre, batch[i].key)]>>
    ELSE <<>>

ClassAt(pre, batch, i) ==
    LET ex == ExistingAt(pre, batch, i) IN
    IF ex = <<>> THEN "inserted"
    ELSE IF ex[1] = batch[i] THEN "unchanged" ELSE "updated"

CountClass(pre, batch, c) == Cardinality({i \in 1..Len(batch) : ClassAt(pre, batch, i) = c})

UniqueKeys(recs) == \A i, j \in 1..Len(recs) : recs[i].key = recs[j].key => i = j

Classified(pre, batch, st, post) ==
    /\ st.inserted = CountClass(pre, batch, "inserted")
    /\ st.updated = CountClass(pre, batch, "updated")
    /\ st.unchanged = CountClass(pre, batch, "unchanged")
    /\ st.inserted + st.updated + st.unchanged = Len(batch)
    /\ UniqueKeys(post)
    /\ KeysOf(post) = KeysOf(pre) \cup KeysOf(batch)
    /\ \A k \in KeysOf(post) :
          post[IndexOfKey(post, k)] =
             IF k \in KeysOf(batch)
             THEN batch[MaxOf({i \in 1..Len(batch) : batch[i].key = k})]
             ELSE pre[IndexOfKey(pre, k)]
    /\ (st.inserted = 0 /\ st.updated = 0 => post = pre)

\* The steps of SpecWriter that are upsert_many calls (a reload at "called"
\* clears repeat, a repeated call sets it).
UpsertStep == pc \in {"idle", "called"} /\ pc' = "called" /\ (pc = "called" => repeat')

\* C1: every upsert_many call counts each record as inserted (key absent when
\* it is processed), unchanged (key present with an equal value) or updated
\* (key present with another value); afterwards the map holds one record per
\* key, the last value upserted for it, and the three counts add up to the
\* number of records passed.
C1_UpsertClassifies ==
    [][UpsertStep => Classified(records, last_batch', stats', records')]_vars

C1_Witness == pc = "called" /\ stats.updated = 1 /\ stats.unchanged = 1 /\ Len(records) = 2

AllUnchanged(batch) == [inserted |-> 0, updated |-> 0, unchanged |-> Len(batch)]

\* C2 as stated: the second of two identical upsert_many calls reports
\* nothing inserted, nothing updated and every record unchanged.
C2_Original == repeat => stats = AllUnchanged(last_batch)

NoConflict(batch) ==
    \A i, j \in 1..Len(batch) : batch[i].key = batch[j].key => batch[i] = batch[j]

\* C2 amended: when no key occurs in the batch with two different values, the
\* second of two identical upsert_many calls (same writer, or a writer
\* reloaded from the flushed file) reports every record unchanged and changes
\* neither the map nor the dirty flag; and a flush with nothing changed since
\* the last flush touches neither the dataset file nor the temp file.
C2_Idempotent ==
    [][/\ (UpsertStep /\ repeat' /\ NoConflict(last_batch')
             => /\ stats' = AllUnchanged(last_batch')
                /\ records' = records /\ dirty' = dirty /\ max_key' = max_key)
       /\ (pc = "flush" /\ ~dirty
             => file' = file /\ tmp' = tmp /\ pc' = ret)]_vars

C2_Witness ==
    /\ repeat /\ NoConflict(last_batch) /\ Len(last_batch) = 2
    /\ stats.unchanged = 2 /\ ~dirty /\ Len(file) = 2 /\ pc = "called"

StrictlyAscending(lines) == \A i \in 1..(Len(lines) - 1) : lines[i][1] < lines[i + 1][1]

\* C5: once a flush has covered every change (the writer is clean and idle),
\* the dataset file holds exactly the records of the map, one line per key,
\* in strictly ascending key order.
C5_FileSortedAndComplete ==
    (pc \in {"idle", "called"} /\ ~dirty) =>
        /\ Len(file) = Len(records)
        /\ StrictlyAscending(file)
        /\ {Decode(file[i]) : i \in 1..Len(file)} = Range(records)

\* a flush has rewritten a file whose records were inserted out of key order
C5_Witness ==
    /\ pc = "idle" /\ ~dirty /\ Len(records) = 2 /\ file = committed
    /\ records[1].key > records[2].key /\ sorted_records # records

\* C40: highest_key is the maximum numeric key among the records the writer
\* holds, None when no held record has a numeric key: right after _load and
\* after every upsert_many (and at every point in between). No call on a
\* writer lowers it, and a writer constructed on the file that a flush of all
\* changes left has the same highest_key and the same keys.
C40_HighestKeyIsMax ==
    /\ [](LET numeric == {k \in KeysOf(records) : k # NonNumericKey} IN
            max_key = IF numeric = {} THEN NoKey ELSE MaxOf(numeric))
    /\ [][/\ (DoUpsertMany \/ Forget \/ CallFlush \/ FlushBegin \/ FlushWrite \/ FlushRename)
                => max_key' >= max_key
          /\ (Reload /\ ~dirty)
                => /\ max_key' = max_key
                   /\ KeysOf(records') = KeysOf(records)
         ]_vars

\* a writer reloaded from a flushed file holds a non-numeric key next to the
\* numeric key of the batch that was upserted before the flush
C40_Witness ==
    /\ pc = "called" /\ stats = ZeroStats /\ ~dirty
    /\ KeysOf(last_batch) = {WMaxKey, NonNumericKey}
    /\ KeysOf(records) = {WMaxKey, NonNumericKey}
    /\ records = LoadRecords(file)
    /\ max_key = WMaxKey

\* ========================================================= BinanceBackfillJob
Kinds == {"candles", "trades", "open_interest", "funding"}

Times == 0..MaxTime

Last(s) == s[Len(s)]

\* Aggregate trades are keyed by agg_id and ranged by timestamp; two trades
\* share one millisecond. Every other kind is keyed by its range key.
TradeTs(id) == IF id = 2 THEN 1 ELSE id

RangeOf(k, key) == IF k = "trades" THEN TradeTs(key) ELSE key

\* A row as the API serves it (wire names of an aggregate trade: a, T, p).
Payload(k, key) == [a |-> key, T |-> RangeOf(k, key), p |-> "a"]

\* The API may answer a request with any rows of the instrument, in any
\* order, inside or outside the requested bounds.
Responses(k) == SeqsUpTo({Payload(k, key) : key \in Times}, MaxBatch)

\* _transform_kline / _transform_trade / _transform_open_interest / _transform_funding
Transform(payload) == Rec(payload.a, payload.T, payload.p)

\* the comprehension's condition without its lower bound
InRangeNoLower(item, batch_cursor, end) == item.ts <= end

\* batch_cursor <= item[range_field] <= end_ms
InRange(item, batch_cursor, end) == batch_cursor <= item.ts /\ item.ts <= end

RECURSIVE FilterBatch(_, _, _)
\* records = [transform(entry) for entry in batch]; records = [item for item in records if ...]
FilterBatch(batch, batch_cursor, end) ==
    IF batch = <<>> THEN <<>>
    ELSE LET item == Transform(Head(batch))
             rest == FilterBatch(Tail(batch), batch_cursor, end)
         IN IF InRange(item, batch_cursor, end) THEN <<item>> \o rest ELSE rest

\* window_ms of _run_trades, _run_open_interest and _run_funding (the limits are MaxBatch)
WindowMs(k) ==
    CASE k = "trades" -> HourMs
      [] k = "open_interest" -> PeriodMs * MaxBatch
      [] k = "funding" -> 8 * HourMs * MaxBatch

\* end_time of the request: end_ms for candles, target_end for the others
TargetEnd(k, cur, end) == IF k = "candles" THEN end ELSE Min(cur + WindowMs(k), end)

\* an empty window that leaves the cursor where it was
NextCursorStalls(k, cur, target_end) == cur

\* cursor after a window without in-range records
NextCursorEmpty(k, cur, target_end) ==
    CASE k = "candles" -> cur + IntervalMs
      [] k = "trades" -> target_end + 1
      [] k = "open_interest" -> target_end + PeriodMs
      [] k = "funding" -> target_end + 1

\* cursor after a persisted batch: past the last record of the batch
NextCursorAfter(k, last) ==
    CASE k = "candles" -> last.ts + IntervalMs
      [] k = "trades" -> last.ts + 1
      [] k = "open_interest" -> last.ts + PeriodMs
      [] k = "funding" -> last.ts + 1

\* the configured start whatever the store holds
EffectiveStartNoResume(k, res, start, highest) == start

\* the resume rule without the clamp to the configured start
EffectiveStartNoClamp(k, res, start, highest) ==
    IF k # "trades" /\ res /\ highest # NoKey THEN highest + 1 ELSE start

\* start_ms after `if config.resume and writer.highest_key is not None`
EffectiveStart(k, res, start, highest) ==
    IF k # "trades" /\ res /\ highest # NoKey THEN Max(start, highest + 1) ELSE start

\* from_id of _run_trades before its loop
InitialFromId(k, res, highest) ==
    IF k = "trades" /\ res /\ highest # NoKey THEN highest + 1 ELSE NoKey

MinOf(S) == CHOOSE x \in S : \A y \in S : x <= y

\* every batch counts as one fetched record
RecordBatchCountsOne(rep, batch, st) ==
    IF batch = <<>> THEN rep
    ELSE [rep EXCEPT !.batches = @ + 1, !.fetched = @ + 1,
                     !.inserted = @ + st.inserted, !.updated = @ + st.updated,
                     !.unchanged = @ + st.unchanged,
                     !.earliest_key = batch[1].ts, !.latest_key = batch[1].ts]

\* DataTypeReport.record_batch(records, stats, key_field, range_field)
RecordBatch(rep, batch, st) ==
    IF batch = <<>> THEN rep
    ELSE LET first_key == MinOf({batch[i].ts : i \in 1..Len(batch)})
             last_key == MaxOf({batch[i].ts : i \in 1..Len(batch)})
         IN [batches |-> rep.batches + 1,
             fetched |-> rep.fetched + Len(batch),
             inserted |-> rep.inserted + st.inserted,
             updated |-> rep.updated + st.updated,
             unchanged |-> rep.unchanged + st.unchanged,
             earliest_key |-> IF rep.earliest_key = NoKey \/ first_key < rep.earliest_key
                              THEN first_key ELSE rep.earliest_key,
             latest_key |-> IF rep.latest_key = NoKey \/ last_key > rep.latest_key
                            THEN last_key ELSE rep.latest_key]

\* IngestionMetrics.observe(kind, batch_size, inserted, updated, duration_seconds)
Observe(m, batch_size, ins, upd) ==
    [batches |-> m.batches + 1, records |-> m.records + batch_size,
     inserted |-> m.inserted + ins, updated |-> m.updated + upd]

\* Dataset files found at the start: nothing, or one record left by an earlier
\* run, with the payload the API serves or with an older one.
BFiles(k) == {<<>>} \cup {<<Encode(Rec(key, RangeOf(k, key), v))>> : key \in Times, v \in Vals}

InitJob ==
    /\ kind \in Kinds
    /\ resume \in BOOLEAN
    /\ start_ms \in {1, 2}
    /\ end_ms = MaxTime - 1
    /\ file \in BFiles(kind)
    /\ file0 = file
    /\ committed = file
    /\ tmp = <<>>
    /\ records = <<>>
    /\ max_key = NoKey
    /\ dirty = FALSE
    /\ sorted_records = <<>>
    /\ pc = "start"
    /\ ret = "done"
    /\ stats = ZeroStats
    /\ last_batch = <<>>
    /\ repeat = FALSE
    /\ cursor = NoKey
    /\ from_id = NoKey
    /\ filtered = <<>>
    /\ report = ZeroReport
    /\ metrics = ZeroMetrics
    /\ fetches = 0
    /\ batch_len = 0
    /\ passed = {}
    /\ served = <<>>
    /\ NoLimiter
    /\ NoLive

InitBackfill == InitJob /\ run = 0

\* _run_*: report, writer = DatasetWriter(path, ...), effective start, cursor
BeginRun ==
    /\ pc = "start"
    /\ NewWriter(file)
    /\ LET highest == LoadMaxKey(LoadRecords(file)) IN
          /\ cursor' = EffectiveStart(kind, resume, start_ms, highest)
          /\ from_id' = InitialFromId(kind, resume, highest)
          /\ pc' = IF EffectiveStart(kind, resume, start_ms, highest) <= end_ms
                   THEN "fetch" ELSE "final"
    /\ UNCHANGED <<file, tmp, sorted_records, committed, ret, stats, last_batch, repeat>>
    /\ UNCHANGED <<kind, resume, start_ms, end_ms, filtered, report, metrics, fetches,
                   batch_len, passed, file0, run, served>>
    /\ UNCHANGED <<lvars, xvars>>

\* One pass from the top of the while loop to the upsert: the fetch with
\* start_time = cursor and end_time = target_end, transform, filter, and the
\* two ways of an iteration without in-range records.
Fetch ==
    /\ pc = "fetch"
    /\ \E batch \in (IF run = 2
                     THEN {IF fetches + 1 <= Len(served) THEN served[fetches + 1] ELSE <<>>}
                     ELSE Responses(kind)) :
          LET target_end == TargetEnd(kind, cursor, end_ms)
              kept == FilterBatch(batch, cursor, end_ms)
          IN /\ served' = IF run = 1 THEN Append(served, batch) ELSE served
             /\ batch_len' = Len(batch)
             /\ filtered' = kept
             /\ IF batch = <<>> /\ kind = "candles"
                THEN /\ pc' = "final"
                     /\ cursor' = cursor
                ELSE IF kept = <<>>
                THEN /\ cursor' = NextCursorEmpty(kind, cursor, target_end)
                     /\ pc' = IF NextCursorEmpty(kind, cursor, target_end) <= end_ms
                              THEN "fetch" ELSE "final"
                ELSE /\ pc' = "upsert"
                     /\ cursor' = cursor
    /\ fetches' = fetches + 1
    /\ UNCHANGED wvars_but_pc
    /\ UNCHANGED <<kind, resume, start_ms, end_ms, from_id, report, metrics, passed, file0, run>>
    /\ UNCHANGED <<lvars, xvars>>

\* stats = writer.upsert_many(records); writer.flush() is entered
Upsert ==
    /\ pc = "upsert"
    /\ LET w == UpsertMany(records, max_key, dirty, filtered) IN
          /\ records' = w.records
          /\ max_key' = w.max_key
          /\ dirty' = w.dirty
          /\ stats' = w.stats
    /\ pc' = "flush"
    /\ ret' = "advance"
    /\ UNCHANGED <<file, tmp, sorted_records, committed, last_batch, repeat>>
    /\ UNCHANGED <<bvars, lvars, xvars>>

\* report.record_batch, metrics.observe, from_id = None, the cursor moves past the batch
Advance ==
    /\ pc = "advance"
    /\ report' = RecordBatch(report, filtered, stats)
    /\ metrics' = Observe(metrics, Len(filtered), stats.inserted, stats.updated)
    /\ from_id' = NoKey
    /\ cursor' = NextCursorAfter(kind, Last(filtered))
    /\ passed' = passed \cup Range(filtered)
    /\ filtered' = <<>>
    /\ pc' = IF NextCursorAfter(kind, Last(filtered)) > end_ms THEN "final" ELSE "fetch"
    /\ UNCHANGED wvars_but_pc
    /\ UNCHANGED <<kind, resume, start_ms, end_ms, fetches, batch_len, file0, run, served>>
    /\ UNCHANGED <<lvars, xvars>>

\* the writer.flush() after the loop; the report is returned
Finish ==
    /\ pc = "final"
    /\ pc' = "flush"
    /\ ret' = "done"
    /\ UNCHANGED <<records, max_key, dirty, file, tmp, sorted_records, committed,
                   stats, last_batch, repeat>>
    /\ UNCHANGED <<bvars, lvars, xvars>>

\* The process dies at any point of the run: memory is lost, the file system
\* stays as it is.
Crash ==
    /\ pc \in {"start", "fetch", "upsert", "flush", "flush_write", "flush_rename",
               "advance", "final"}
    /\ pc' = "crashed"
    /\ records' = <<>>
    /\ max_key' = NoKey
    /\ dirty' = FALSE
    /\ stats' = ZeroStats
    /\ cursor' = NoKey
    /\ from_id' = NoKey
    /\ filtered' = <<>>
    /\ report' = ZeroReport
    /\ metrics' = ZeroMetrics
    /\ fetches' = 0
    /\ batch_len' = 0
    /\ sorted_records' = <<>>
    /\ UNCHANGED <<file, tmp, committed, ret, last_batch, repeat>>
    /\ UNCHANGED <<kind, resume, start_ms, end_ms, passed, file0, run, served>>
    /\ UNCHANGED <<lvars, xvars>>

NextBackfill ==
    \/ BeginRun
    \/ Fetch
    \/ Upsert
    \/ FlushBegin
    \/ FlushWrite
    \/ FlushRename
    \/ Advance
    \/ Finish
    \/ Crash

SpecBackfill == InitBackfill /\ [][NextBackfill]_vars

\* The run without crashes, every step of which is eventually taken: the job
\* is one synchronous call that nothing suspends.
NextRun ==
    \/ BeginRun
    \/ Fetch
    \/ Upsert
    \/ FlushBegin
    \/ FlushWrite
    \/ FlushRename
    \/ Advance
    \/ Finish

SpecLive == InitBackfill /\ [][NextRun]_vars /\ WF_vars(NextRun)

\* ------------------------------------------------- claims on the backfill job
\* rec is a line of the dataset file
Durable(rec) == \E i \in 1..Len(file) : file[i] = Encode(rec)

\* C3: the cursor moves past a non-empty filtered batch only once the batch has
\* been upserted and flushed, so in every state, a crash at any step included,
\* every in-range record of a window the cursor has moved past is a line of the
\* dataset file.
C3_PersistBeforeAdvance ==
    /\ \A rec \in passed : Durable(rec)
    /\ pc = "advance" => ~dirty /\ \A i \in 1..Len(filtered) : Durable(filtered[i])

C3_Witness == pc = "crashed" /\ \E rec \in passed : Encode(rec) \notin Range(file0)

\* C4: at every step of flush (temp file created, partly written, fully
\* written, renamed) and after a crash at any of them, the dataset file holds
\* exactly the content committed by the last completed rename, which the
\* rename replaces at once by the complete new content.
C4_FlushAtomic ==
    /\ file = committed
    /\ pc = "flush_rename" => tmp = EncodeAll(sorted_records)

C4_Witness == pc = "crashed" /\ tmp # <<>> /\ Len(tmp) < Len(file)

\* highest key of the dataset file lines f
StoredMax(f) == IF f = <<>> THEN NoKey ELSE MaxOf({f[i][1] : i \in 1..Len(f)})

\* the loop is entered, or skipped, and nothing has been requested yet
BeforeFirstRequest == pc \in {"fetch", "final"} /\ fetches = 0

ResumedStart(K) == IF resume /\ K # NoKey THEN Max(start_ms, K + 1) ELSE start_ms

\* C6 as stated: for every kind the initial cursor is max(start, K + 1) when
\* resuming over a non-empty store, else the configured start.
C6_Original == BeforeFirstRequest => cursor = ResumedStart(StoredMax(file0))

\* C6 amended: that holds for candles, open interest and funding; the trades
\* cursor always starts at the configured start, and a resumed run over a
\* non-empty store passes from_id = K + 1 instead.
C6_InitialCursor ==
    BeforeFirstRequest =>
        LET K == StoredMax(file0) IN
           IF kind = "trades"
           THEN /\ cursor = start_ms
                /\ from_id = IF resume /\ K # NoKey THEN K + 1 ELSE NoKey
           ELSE /\ cursor = ResumedStart(K)
                /\ from_id = NoKey

C6_Witness ==
    /\ kind = "trades" /\ resume /\ pc = "fetch" /\ fetches = 0
    /\ StoredMax(file0) + 1 > start_ms
    /\ from_id = StoredMax(file0) + 1
    /\ cursor = start_ms

\* C8: whatever rows the API returns, only rows with cursor <= range key <= end
\* reach upsert_many, the report and the metrics; no line with a range key
\* outside [start, end] is written to the file.
C8_OnlyInRange ==
    /\ \A i \in 1..Len(filtered) : cursor <= filtered[i].ts /\ filtered[i].ts <= end_ms
    /\ \A i \in 1..Len(file) :
          file[i] \in Range(file0) \/ (start_ms <= file[i][2] /\ file[i][2] <= end_ms)
    /\ report.fetched > 0 => start_ms <= report.earliest_key /\ report.latest_key <= end_ms
    /\ metrics.records = report.fetched

C8_Witness == pc = "advance" /\ filtered # <<>> /\ Len(filtered) < batch_len

\* C39: at every point of a backfill run the report satisfies inserted +
\* updated + unchanged = fetched, batches <= fetched, earliest_key <=
\* latest_key whenever batches > 0, and both keys lie within [effective
\* start, end]; batches counts only non-empty filtered batches and fetched
\* only the records that passed the range filter.
C39_ReportConsistent ==
    /\ [](/\ report.inserted + report.updated + report.unchanged = report.fetched
          /\ report.batches <= report.fetched
          /\ report.batches = 0 => report = ZeroReport
          /\ report.batches > 0 =>
                /\ report.earliest_key <= report.latest_key
                /\ EffectiveStart(kind, resume, start_ms, StoredMax(file0)) <= report.earliest_key
                /\ report.latest_key <= end_ms)
    /\ [][report' # report =>
            \/ report' = ZeroReport
            \/ /\ filtered # <<>>
               /\ \A i \in 1..Len(filtered) : InRange(filtered[i], cursor, end_ms)
               /\ report'.batches = report.batches + 1
               /\ report'.fetched = report.fetched + Len(filtered)]_vars

\* two batches were recorded, three records in all, one of them equal to a
\* record the file already held, and the run goes on
C39_Witness ==
    /\ pc = "fetch"
    /\ report.batches = 2
    /\ report.fetched = 3
    /\ report.unchanged = 1
    /\ report.earliest_key < report.latest_key

\* C9: every loop iteration ends the loop or leaves the cursor strictly
\* greater; a window whose rows are all out of range moves the cursor on and
\* writes nothing; the fetches are bounded, and the run ends with cursor > end
\* or, for candles, on an empty response.
C9_CursorProgress ==
    /\ [][/\ (pc = "fetch" /\ pc' = "fetch") => cursor' > cursor
          /\ (pc = "fetch" /\ pc' = "upsert") => cursor' = cursor
          /\ (pc = "fetch" /\ pc' = "final") =>
                cursor' > end_ms \/ (kind = "candles" /\ batch_len' = 0)
          /\ pc = "advance" => cursor' > cursor /\ (pc' = "final" <=> cursor' > end_ms)
          /\ (pc = "fetch" /\ batch_len' > 0 /\ filtered' = <<>>) =>
                /\ cursor' > cursor
                /\ UNCHANGED <<file, tmp, records, dirty, report, metrics>>
          /\ fetches' <= end_ms - start_ms + 1
          /\ pc' = "done" => cursor' > end_ms \/ (kind = "candles" /\ batch_len' = 0)
         ]_vars
    /\ <>(pc = "done")

C9_Witness ==
    /\ pc = "done" /\ cursor > end_ms
    /\ fetches > 0 /\ batch_len > 0 /\ report.batches = 0
    /\ file = file0

\* --------------------------------------------------------------- the rerun
\* A completed run followed by a second run over the same window with resume
\* enabled, by a new job with a new client that serves the responses of the
\* first run again, in order, and nothing once they are used up.
InitRerun == InitJob /\ run = 1

\* second_job = BinanceBackfillJob(second_client, metrics=IngestionMetrics()); second_job.run(config)
Rerun ==
    /\ pc = "done"
    /\ run = 1
    /\ run' = 2
    /\ resume' = TRUE
    /\ pc' = "start"
    /\ file0' = file
    /\ records' = <<>>
    /\ max_key' = NoKey
    /\ stats' = ZeroStats
    /\ cursor' = NoKey
    /\ from_id' = NoKey
    /\ filtered' = <<>>
    /\ report' = ZeroReport
    /\ metrics' = ZeroMetrics
    /\ fetches' = 0
    /\ batch_len' = 0
    /\ passed' = {}
    /\ UNCHANGED <<dirty, file, tmp, sorted_records, committed, ret, last_batch, repeat>>
    /\ UNCHANGED <<kind, start_ms, end_ms, served>>
    /\ UNCHANGED <<lvars, xvars>>

NextRerun ==
    \/ BeginRun
    \/ Fetch
    \/ Upsert
    \/ FlushBegin
    \/ FlushWrite
    \/ FlushRename
    \/ Advance
    \/ Finish
    \/ Rerun

SpecRerun == InitRerun /\ [][NextRerun]_vars

\* the lower bounds of the next request leave out every key up to K
AsksAbove(K) ==
    IF kind = "trades"
    THEN \/ from_id > K
         \/ from_id = NoKey /\ \A key \in 0..K : TradeTs(key) < cursor
    ELSE cursor > K

NoWriter ==
    /\ records = <<>>
    /\ max_key = NoKey
    /\ dirty = FALSE
    /\ file = <<>>
    /\ tmp = <<>>
    /\ sorted_records = <<>>
    /\ committed = <<>>
    /\ pc = "none"
    /\ ret = "none"
    /\ stats = ZeroStats
    /\ last_batch = <<>>
    /\ repeat = FALSE

\* acquire() arguments: the REST client's weights are 1 and 2; one more than
\* the capacity is the smallest weight that can never fit.
Weights == 1..(Capacity + 1)

RECURSIVE Trim(_, _)
\* _trim(now): drop the leading events that are at least interval old
Trim(ev, now) ==
    IF ev # <<>> /\ now - Head(ev) >= Interval THEN Trim(Tail(ev), now) ELSE ev

\* `async with self._lock` entered without waiting for the holder
LockIgnored == TRUE

\* self._lock is free
LockAvailable == lock = 0

InitLimiter ==
    /\ NoWriter
    /\ NoBackfill
    /\ NoLimiter
    /\ NoLive

\* a task calls acquire(weight) with a positive weight
L_Call(c) ==
    /\ lpc[c] = "idle"
    /\ \E w \in Weights : lweight' = [lweight EXCEPT ![c] = w]
    /\ lpc' = [lpc EXCEPT ![c] = "lock"]
    /\ UNCHANGED <<clock, events, lock, lnow, lwake, grants>>
    /\ UNCHANGED <<wvars, bvars, xvars>>

\* async with self._lock: the lock is taken; now = self._now(); self._trim(now)
L_Lock(c) ==
    /\ lpc[c] = "lock"
    /\ LockAvailable
    /\ lock' = c
    /\ lnow' = [lnow EXCEPT ![c] = clock]
    /\ events' = Trim(events, clock)
    /\ lpc' = [lpc EXCEPT ![c] = "check"]
    /\ UNCHANGED <<clock, lweight, lwake, grants>>
    /\ UNCHANGED <<wvars, bvars, xvars>>

RECURSIVE Repeat(_, _)
\* n copies of x
Repeat(x, n) == IF n = 0 THEN <<>> ELSE <<x>> \o Repeat(x, n - 1)

\* if len(self._events) + weight <= self._capacity: append now weight times and
\* return; else wait_time = max(0.0, interval - (now - self._events[0])), where
\* self._events[0] of an empty deque raises IndexError. The lock is released on
\* every way out of the with block.
L_Check(c) ==
    /\ lpc[c] = "check"
    /\ IF Len(events) + lweight[c] <= Capacity
       THEN /\ events' = events \o Repeat(lnow[c], lweight[c])
            /\ grants' = grants \o Repeat(lnow[c], lweight[c])
            /\ lpc' = [lpc EXCEPT ![c] = "idle"]
            /\ lnow' = [lnow EXCEPT ![c] = 0]
            /\ lweight' = [lweight EXCEPT ![c] = 0]
            /\ UNCHANGED lwake
       ELSE IF events = <<>>
       THEN /\ lpc' = [lpc EXCEPT ![c] = "error"]
            /\ UNCHANGED <<events, grants, lnow, lweight, lwake>>
       ELSE /\ lwake' = [lwake EXCEPT ![c] = clock + Max(0, Interval - (lnow[c] - events[1]))]
            /\ lpc' = [lpc EXCEPT ![c] = "sleep"]
            /\ UNCHANGED <<events, grants, lnow, lweight>>
    /\ lock' = 0
    /\ UNCHANGED clock
    /\ UNCHANGED <<wvars, bvars, xvars>>

\* await self._sleep(wait_time) is over; the while loop tries again
L_Wake(c) ==
    /\ lpc[c] = "sleep"
    /\ clock >= lwake[c]
    /\ lpc' = [lpc EXCEPT ![c] = "lock"]
    /\ lwake' = [lwake EXCEPT ![c] = 0]
    /\ lnow' = [lnow EXCEPT ![c] = 0]
    /\ UNCHANGED <<clock, events, lock, lweight, grants>>
    /\ UNCHANGED <<wvars, bvars, xvars>>

\* the IndexError leaves acquire(); the task is free to call again
L_Raise(c) ==
    /\ lpc[c] = "error"
    /\ lpc' = [lpc EXCEPT ![c] = "idle"]
    /\ lnow' = [lnow EXCEPT ![c] = 0]
    /\ lweight' = [lweight EXCEPT ![c] = 0]
    /\ UNCHANGED <<clock, events, lock, lwake, grants>>
    /\ UNCHANGED <<wvars, bvars, xvars>>

\* time passes; granted units that reached the age of interval leave the window
L_Tick ==
    /\ clock < MaxClock
    /\ clock' = clock + 1
    /\ grants' = SelectSeq(grants, LAMBDA t : (clock + 1) - t < Interval)
    /\ UNCHANGED <<events, lock, lpc, lnow, lweight, lwake>>
    /\ UNCHANGED <<wvars, bvars, xvars>>

NextLimiter ==
    \/ \E c \in Callers : L_Call(c)
    \/ \E c \in Callers : L_Lock(c)
    \/ \E c \in Callers : L_Check(c)
    \/ \E c \in Callers : L_Wake(c)
    \/ \E c \in Callers : L_Raise(c)
    \/ L_Tick

SpecLimiter == InitLimiter /\ [][NextLimiter]_vars

\* ------------------------------------------------------- claims: RateLimiter
InCriticalSection(c) == lpc[c] = "check"

\* C10: under every interleaving of callers of one RateLimiter at most one
\* caller is between its trim and its check-and-record (and it holds the lock), and
\* the granted units younger than interval never exceed the capacity.
C10_WindowBounded ==
    /\ \A c, d \in Callers : InCriticalSection(c) /\ InCriticalSection(d) => c = d
    /\ \A c \in Callers : InCriticalSection(c) => lock = c
    /\ Len(SelectSeq(grants, LAMBDA t : clock - t < Interval)) <= Capacity

\* the window is full while another caller is waiting for the lock or asleep
C10_Witness ==
    /\ Len(grants) = Capacity
    /\ \E c, d \in Callers :
          /\ c # d
          /\ lpc[c] = "check" /\ Len(events) + lweight[c] > Capacity
          /\ lpc[d] \in {"lock", "sleep"}

\* C11: a caller whose weight does not fit records nothing, sleeps exactly
\* interval - (now - oldest recorded timestamp) and retries; in particular,
\* with the window filled by capacity units recorded at the caller's own
\* instant, a weight-1 acquisition sleeps exactly interval.
C11_SleepsWhenFull ==
    [][\A c \in Callers :
          (lpc[c] = "check" /\ lpc'[c] # "check" /\ Len(events) + lweight[c] > Capacity) =>
              /\ events' = events
              /\ grants' = grants
              /\ lpc'[c] = "sleep"
              /\ events # <<>>
              /\ lwake'[c] - clock = Interval - (lnow[c] - events[1])
              /\ (events = Repeat(lnow[c], Capacity) /\ lweight[c] = 1) =>
                    lwake'[c] - clock = Interval
      ]_vars

\* C36: acquire(weight) with a weight greater than capacity is never granted
\* and records no timestamp; it keeps the caller suspended and does not fail
\* with an error.
C36_OversizeSuspends ==
    /\ [](\A c \in Callers : lpc[c] # "error")
    /\ [][\A c \in Callers :
            (lpc[c] = "check" /\ lpc'[c] # "check" /\ lweight[c] > Capacity) =>
                /\ grants' = grants
                /\ events' = events
                /\ lpc'[c] = "sleep"]_vars

\* ========================================================= ExponentialBackoff
oldvars == <<wvars, bvars, lvars>>

\* the largest finite float, as a power of two
FloatLimit == 2 ^ FloatMaxExp

RECURSIVE Pow(_, _)
\* self._factor ** self._attempts, exact up to FloatLimit; a result of
\* FloatLimit stands for every result outside the float range
Pow(f, n) == IF n = 0 THEN 1 ELSE Min(f * Pow(f, n - 1), FloatLimit)

\* float ** int raises OverflowError when the result is out of range
PowOverflows(f, n) == Pow(f, n) >= FloatLimit

\* delay = min(self._initial * (self._factor ** self._attempts), self._maximum)
CappedDelay(b) == Min(b.initial * Pow(b.factor, b.attempts), b.maximum)

\* ExponentialBackoff.next_delay(): the delay and the instance afterwards;
\* the exception leaves the instance as it was
NextDelayOf(b) ==
    IF PowOverflows(b.factor, b.attempts)
    THEN [raised |-> TRUE, delay |-> NoKey, backoff |-> b]
    ELSE [raised |-> FALSE, delay |-> CappedDelay(b),
          backoff |-> [b EXCEPT !.attempts = @ + 1]]

\* ExponentialBackoff.reset()
ResetOf(b) == [b EXCEPT !.attempts = 0]

\* ExponentialBackoff(initial, factor, maximum) with initial > 0, factor >= 1, maximum >= initial
Backoffs ==
    {[initial |-> i, factor |-> f, maximum |-> m, attempts |-> 0] :
        i \in {1, 2}, f \in {1, 2}, m \in {2, 4, 30}}

InitBackoff ==
    /\ backoff \in Backoffs
    /\ delay = NoKey
    /\ raised = FALSE
    /\ calls = 0
    /\ last_delay = NoKey
    /\ NoWriter
    /\ NoBackfill
    /\ NoLimiter
    /\ NoRest
    /\ NoStream
    /\ NoService
    /\ NoLater

\* a caller asks for the next delay
NextDelay ==
    /\ calls <= FloatMaxExp
    /\ LET out == NextDelayOf(backoff) IN
          /\ backoff' = out.backoff
          /\ delay' = out.delay
          /\ raised' = out.raised
    /\ calls' = calls + 1
    /\ last_delay' = delay
    /\ UNCHANGED <<oldvars, rvars, svars, gvars, yvars>>

\* a caller resets the ladder
Reset ==
    /\ backoff' = ResetOf(backoff)
    /\ delay' = NoKey
    /\ raised' = FALSE
    /\ calls' = 0
    /\ last_delay' = NoKey
    /\ UNCHANGED <<oldvars, rvars, svars, gvars, yvars>>

NextBackoff ==
    \/ NextDelay
    \/ Reset

SpecBackoff == InitBackoff /\ [][NextBackoff]_vars

RECURSIVE IdealDelay(_, _, _, _)
\* min(initial * factor^n, maximum) over the reals
IdealDelay(i, f, m, n) == IF n = 0 THEN Min(i, m) ELSE Min(f * IdealDelay(i, f, m, n - 1), m)

\* C12: next_delay returns min(initial * factor^attempts, maximum), attempts
\* being the calls since construction or the last reset; with (1, 2, 30) the
\* values are 1, 2, 4, 8, 16, 30, 30, ...; between resets they never decrease
\* and never exceed maximum.
C12_BackoffLadder ==
    /\ ~raised
    /\ backoff.attempts = calls
    /\ calls > 0 =>
          /\ delay = IdealDelay(backoff.initial, backoff.factor, backoff.maximum, calls - 1)
          /\ delay <= backoff.maximum
          /\ last_delay # NoKey => last_delay <= delay
    /\ (calls > 0 /\ backoff.initial = 1 /\ backoff.factor = 2 /\ backoff.maximum = 30) =>
          delay = IF calls <= 5 THEN 2 ^ (calls - 1) ELSE 30

\* ================================================= REST clients: _get
\* HTTP statuses an attempt can end with, besides success
Statuses == {"400", "429", "500"}

\* retry_statuses default of BinanceFuturesRESTClient
DefaultRetryStatuses == {"418", "429", "500", "502", "503", "504"}

\* the statuses BinanceRESTClient._get retries
BackfillRetryStatuses == {"418", "429", "504"}

\* self._retry_statuses = set(retry_statuses or (418, 429, 500, 502, 503, 504))
RetryStatuses(configured) == IF configured = {} THEN DefaultRetryStatuses ELSE configured

Operations == {"klines", "open_interest", "funding"}

\* self._weights before request_weights is applied
DefaultWeights == [o \in Operations |-> IF o = "funding" THEN 1 ELSE 2]

\* self._weights.update({k: max(1, int(v)) ...}) for an override of one operation
WithOverride(o, v) == [DefaultWeights EXCEPT ![o] = Max(1, v)]

\* the request weight tables a client can be built with
WeightTables == {DefaultWeights, WithOverride("funding", 0), WithOverride("klines", Capacity + 1)}

\* the clients: kind, max_retries after max(1, .), retry set, weights, backoff settings
RestClients ==
    {[kind |-> "live", max_retries |-> Max(1, n), retry |-> RetryStatuses(r), weights |-> w,
      backoff_seconds |-> Max(b, 0), backoff_factor |-> 2, max_backoff_seconds |-> x] :
        n \in 0..MaxRetries, r \in {{}, {"429"}}, w \in WeightTables, b \in {0, 1}, x \in {1, 3}}
    \cup
    {[kind |-> "backfill", max_retries |-> Max(1, n), retry |-> BackfillRetryStatuses,
      weights |-> DefaultWeights, backoff_seconds |-> Max(b, 0), backoff_factor |-> 2,
      max_backoff_seconds |-> 0] :
        n \in 0..MaxRetries, b \in {0, 1}}

\* what one HTTP attempt ends with: a decodable 2xx answer, a 2xx answer whose
\* body is not JSON, an error status, or a transport failure (httpx.HTTPError)
Outcomes == {"ok", "undecodable", "transport"} \cup Statuses

\* the status test ignored: every failure is retried
RetryableAlways(cfg, o) == TRUE

\* the failure of an attempt allows another attempt (attempts remaining is tested apart)
Retryable(cfg, o) == o = "transport" \/ o \in cfg.retry

\* the REST client is caller 1 of the shared limiter
RestCaller == 1

\* acquire() counted as returned before the limiter granted it
AcquireSkipped == TRUE

\* await self._limiter.acquire(weight) has returned
AcquireReturned == lpc[RestCaller] = "idle"

InitRest ==
    /\ rclient \in RestClients
    /\ rpc = "idle"
    /\ rop = "none"
    /\ attempt = 0
    /\ rbackoff = 0
    /\ rsleeps = <<>>
    /\ routs = <<>>
    /\ gets = 0
    /\ rcalls = 0
    /\ NoWriter
    /\ NoBackfill
    /\ NoLimiter
    /\ NoBackoff
    /\ NoStream
    /\ NoService
    /\ NoLater

\* fetch_klines / fetch_open_interest / fetch_funding_rates enter _get, the
\* call before (if any) being over:
\* attempt = 0; backoff = max(self._backoff_seconds, 0.0)
R_Call ==
    /\ rpc \in {"idle", "returned", "rest_error", "raised"}
    /\ rcalls < MaxCalls
    /\ \E o \in Operations : rop' = o
    /\ rpc' = "loop"
    /\ attempt' = 0
    /\ rbackoff' = Max(rclient.backoff_seconds, 0)
    /\ rsleeps' = <<>>
    /\ routs' = <<>>
    /\ gets' = 0
    /\ rcalls' = rcalls + 1
    /\ UNCHANGED rclient
    /\ UNCHANGED <<wvars, bvars, lvars, kvars, svars, gvars, yvars>>

\* live client: attempt += 1; await self._limiter.acquire(weight) is called
R_Attempt ==
    /\ rclient.kind = "live"
    /\ rpc = "loop"
    /\ attempt' = attempt + 1
    /\ rpc' = "acquire"
    /\ lpc' = [lpc EXCEPT ![RestCaller] = "lock"]
    /\ lweight' = [lweight EXCEPT ![RestCaller] = rclient.weights[rop]]
    /\ UNCHANGED <<rclient, rop, rbackoff, rsleeps, routs, gets, rcalls>>
    /\ UNCHANGED <<clock, events, lock, lnow, lwake, grants>>
    /\ UNCHANGED <<wvars, bvars, kvars, svars, gvars, yvars>>

\* the steps of acquire() on behalf of the client
R_Limiter ==
    /\ rpc = "acquire"
    /\ \/ L_Lock(RestCaller)
       \/ L_Check(RestCaller)
       \/ L_Wake(RestCaller)

\* acquire() raised IndexError; _get catches only httpx errors, so it leaves _get
R_AcquireRaised ==
    /\ rpc = "acquire"
    /\ lpc[RestCaller] = "error"
    /\ rpc' = "raised"
    /\ lpc' = [lpc EXCEPT ![RestCaller] = "idle"]
    /\ lnow' = [lnow EXCEPT ![RestCaller] = 0]
    /\ lweight' = [lweight EXCEPT ![RestCaller] = 0]
    /\ UNCHANGED <<rclient, rop, attempt, rbackoff, rsleeps, routs, gets, rcalls>>
    /\ UNCHANGED <<clock, events, lock, lwake, grants>>
    /\ UNCHANGED <<wvars, bvars, kvars, svars, gvars, yvars>>

\* live client, after acquire returned: response = await self._client.get(...);
\* raise_for_status(); return response.json(); the two except clauses with
\* their sleep and the update of backoff
R_Get ==
    /\ rclient.kind = "live"
    /\ rpc = "acquire"
    /\ AcquireReturned
    /\ gets' = gets + 1
    /\ \E o \in Outcomes :
          /\ routs' = Append(routs, o)
          /\ IF o = "ok" THEN
                rpc' = "returned" /\ UNCHANGED <<rbackoff, rsleeps>>
             ELSE IF o = "undecodable" THEN
                rpc' = "raised" /\ UNCHANGED <<rbackoff, rsleeps>>
             ELSE IF attempt >= rclient.max_retries \/ ~Retryable(rclient, o) THEN
                rpc' = "rest_error" /\ UNCHANGED <<rbackoff, rsleeps>>
             ELSE
                LET d == Min(rbackoff, rclient.max_backoff_seconds) IN
                   /\ rsleeps' = IF d > 0 THEN Append(rsleeps, d) ELSE rsleeps
                   /\ rbackoff' = IF d > 0 THEN d * rclient.backoff_factor
                                  ELSE rclient.backoff_factor
                   /\ rpc' = "loop"
    /\ UNCHANGED <<rclient, rop, attempt, rcalls>>
    /\ UNCHANGED <<wvars, bvars, lvars, kvars, svars, gvars, yvars>>

\* backfill client: one pass of `for attempt in range(1, max_retries + 1)`:
\* the GET, and self._backoff(attempt) before the next pass
B_Get ==
    /\ rclient.kind = "backfill"
    /\ rpc = "loop"
    /\ attempt' = attempt + 1
    /\ gets' = gets + 1
    /\ \E o \in Outcomes :
          /\ routs' = Append(routs, o)
          /\ IF o = "ok" THEN
                rpc' = "returned" /\ UNCHANGED rsleeps
             ELSE IF o = "undecodable" THEN
                rpc' = "raised" /\ UNCHANGED rsleeps
             ELSE IF Retryable(rclient, o) /\ attempt + 1 < rclient.max_retries THEN
                LET d == rclient.backoff_seconds * (2 ^ attempt) IN
                   /\ rsleeps' = IF d > 0 THEN Append(rsleeps, d) ELSE rsleeps
                   /\ rpc' = "loop"
             ELSE
                rpc' = "rest_error" /\ UNCHANGED rsleeps
    /\ UNCHANGED <<rclient, rop, rbackoff, rcalls>>
    /\ UNCHANGED <<wvars, bvars, lvars, kvars, svars, gvars, yvars>>

NextRest ==
    \/ R_Call
    \/ R_Attempt
    \/ R_Limiter
    \/ R_AcquireRaised
    \/ R_Get
    \/ B_Get
    \/ L_Tick

SpecRest == InitRest /\ [][NextRest]_vars

\* a failed attempt: an error status or a transport failure
Failure(o) == o = "transport" \/ o \in Statuses

\* C13: one fetch call issues at most max_retries (>= 1) HTTP attempts; it
\* returns the payload of the first successful attempt; another attempt follows
\* only a retryable failure while attempts remain; it fails with the REST error
\* as soon as an attempt gets a non-retryable status or the last allowed
\* attempt fails; no attempt follows a non-retryable status.
C13_RetryDiscipline ==
    /\ rclient.kind # "none" => rclient.max_retries >= 1
    /\ gets = Len(routs)
    /\ gets <= rclient.max_retries
    /\ \A i \in 1..Len(routs) :
          i < Len(routs) =>
             /\ Failure(routs[i])
             /\ routs[i] \in Statuses => routs[i] \in rclient.retry
             /\ i < rclient.max_retries
    /\ rpc = "returned" <=> (routs # <<>> /\ Last(routs) = "ok")
    /\ (rpc = "raised" /\ routs # <<>>) => Last(routs) = "undecodable"
    /\ rpc = "rest_error" <=>
          /\ routs # <<>>
          /\ Failure(Last(routs))
          /\ \/ Last(routs) \in Statuses /\ Last(routs) \notin rclient.retry
             \/ Len(routs) = rclient.max_retries
    /\ rpc = "loop" =>
          \/ routs = <<>>
          \/ /\ Failure(Last(routs))
             /\ Last(routs) \in Statuses => Last(routs) \in rclient.retry
             /\ Len(routs) < rclient.max_retries

\* a call retried after a retryable status and a transport failure and returned
\* the third attempt's payload
C13_Witness ==
    /\ rpc = "returned"
    /\ routs = <<"429", "transport", "ok">>

\* the weight _get passes to acquire for the operation of the call in progress
DeclaredWeight == rclient.weights[rop]

\* C14: every GET of the live client, first attempt or retry, follows one
\* completed acquisition of the operation's declared weight (klines 2, open
\* interest 2, funding 1 unless overridden); an acquisition is called once per
\* attempt, completes only by recording weight units, and no unit is recorded
\* outside an acquisition, so n attempts consume n * weight units.
C14_AcquireBeforeGet ==
    [][rclient.kind = "live" =>
          /\ (rpc = "loop" /\ rpc' # "loop") =>
                /\ rpc' = "acquire"
                /\ lpc'[RestCaller] = "lock"
                /\ lweight'[RestCaller] = DeclaredWeight
                /\ gets' = gets
                /\ attempt' = gets + 1
          /\ (rpc = "acquire" /\ lpc[RestCaller] # "idle" /\ lpc'[RestCaller] = "idle" /\ rpc' = "acquire") =>
                events' = events \o Repeat(lnow[RestCaller], DeclaredWeight)
          /\ gets' > gets =>
                /\ rpc = "acquire"
                /\ lpc[RestCaller] = "idle"
                /\ gets' = gets + 1
                /\ rpc' # "acquire"
          /\ (rpc # "acquire" \/ lpc[RestCaller] = "idle") => events' = events
          /\ rclient.weights = DefaultWeights =>
                lweight'[RestCaller] \in {0, IF rop' = "funding" THEN 1 ELSE 2}
          /\ (rcalls' = 1 /\ clock' < Interval) =>
                Len(events') = DeclaredWeight' *
                    (gets' + IF rpc' = "acquire" /\ lpc'[RestCaller] = "idle" THEN 1 ELSE 0)
    ]_vars

\* a klines call whose retry had to wait for the window before its GET
C14_Witness ==
    /\ rclient.kind = "live"
    /\ rpc = "returned"
    /\ rop = "klines"
    /\ DeclaredWeight = 2
    /\ gets = 2
    /\ Len(events) = 2
    /\ clock >= Interval

\* ============================================ BinanceAggTradeWebSocket.stream
\* the messages a connection can deliver: a raw trade object, a trade wrapped
\* as {"data": {...}}, bytes or text that is not JSON, an object lacking a
\* required key, and an object with every required key one of whose values
\* int() or float() rejects
Messages == {"trade", "wrapped", "malformed", "missing", "unconvertible"}

\* _decode_trade: "trade" for an AggTrade, "none" for None, "raise" for the
\* ValueError / TypeError of the conversions
DecodeTrade(msg) ==
    CASE msg \in {"trade", "wrapped"} -> "trade"
      [] msg \in {"malformed", "missing"} -> "none"
      [] msg = "unconvertible" -> "raise"

\* the stop signal is never looked at
StopIgnored == FALSE

\* stop_event and stop_event.is_set()
StopIsSet == has_stop /\ stop_set

\* await self._sleep(delay) is over
WaitOver == selapsed

InitStream ==
    /\ spc = "top"
    /\ has_stop \in BOOLEAN
    /\ stop_set = FALSE
    /\ sbackoff = StreamBackoff
    /\ sdelay = NoKey
    /\ selapsed = FALSE
    /\ smsgs = 0
    /\ slast = "none"
    /\ strades = 0
    /\ sfails = 0
    /\ sconnects = 0
    /\ NoWriter
    /\ NoBackfill
    /\ NoLimiter
    /\ NoBackoff
    /\ NoRest
    /\ NoService
    /\ NoLater

\* the caller sets the stop signal
S_SetStop ==
    /\ spc # "none"
    /\ has_stop
    /\ ~stop_set
    /\ stop_set' = TRUE
    /\ UNCHANGED <<spc, has_stop, sbackoff, sdelay, selapsed, smsgs, slast, strades, sfails, sconnects>>
    /\ UNCHANGED <<oldvars, kvars, rvars, gvars, yvars>>

\* while stop_event is None or not stop_event.is_set()
S_Top ==
    /\ spc = "top"
    /\ spc' = IF StopIsSet THEN "ended" ELSE "connecting"
    /\ UNCHANGED <<has_stop, stop_set, sbackoff, sdelay, selapsed, smsgs, slast, strades, sfails, sconnects>>
    /\ UNCHANGED <<oldvars, kvars, rvars, gvars, yvars>>

\* except Exception: delay = backoff.next_delay(); if stop is set: break;
\* await self._sleep(delay). next_delay raising leaves the generator.
ExceptBranch ==
    LET out == NextDelayOf(sbackoff) IN
       /\ sbackoff' = out.backoff
       /\ sdelay' = out.delay
       /\ selapsed' = FALSE
       /\ spc' = IF out.raised THEN "raised" ELSE IF StopIsSet THEN "ended" ELSE "sleep"

\* else: if stop is set: break; delay = backoff.next_delay(); await self._sleep(delay)
ElseBranch ==
    IF StopIsSet
    THEN spc' = "ended" /\ UNCHANGED <<sbackoff, sdelay, selapsed>>
    ELSE LET out == NextDelayOf(sbackoff) IN
            /\ sbackoff' = out.backoff
            /\ sdelay' = out.delay
            /\ selapsed' = FALSE
            /\ spc' = IF out.raised THEN "raised" ELSE "sleep"

\* async with self._connect_factory(stream_path): the connection is
\* established (backoff.reset()) or the attempt fails
S_Connect ==
    /\ spc = "connecting"
    /\ sconnects < MaxConnects
    /\ sconnects' = sconnects + 1
    /\ smsgs' = 0
    /\ slast' = "none"
    /\ \/ /\ spc' = "reading"
          /\ sbackoff' = ResetOf(sbackoff)
          /\ sfails' = 0
          /\ UNCHANGED <<sdelay, selapsed>>
       \/ /\ ExceptBranch
          /\ sfails' = sfails + 1
    /\ UNCHANGED <<has_stop, stop_set, strades>>
    /\ UNCHANGED <<oldvars, kvars, rvars, gvars, yvars>>

\* async for message in websocket: one message; return if the stop signal is
\* set; _decode_trade; None -> continue; else backoff.reset() and yield
S_Message ==
    /\ spc = "reading"
    /\ smsgs < MaxMessages
    /\ smsgs' = smsgs + 1
    /\ \E msg \in Messages :
          /\ slast' = msg
          /\ IF StopIsSet THEN
                spc' = "ended" /\ UNCHANGED <<sbackoff, sdelay, selapsed, strades>>
             ELSE IF DecodeTrade(msg) = "raise" THEN
                ExceptBranch /\ UNCHANGED strades
             ELSE IF DecodeTrade(msg) = "none" THEN
                UNCHANGED <<spc, sbackoff, sdelay, selapsed, strades>>
             ELSE
                /\ sbackoff' = ResetOf(sbackoff)
                /\ strades' = strades + 1
                /\ spc' = "yielded"
                /\ UNCHANGED <<sdelay, selapsed>>
    /\ UNCHANGED <<has_stop, stop_set, sfails, sconnects>>
    /\ UNCHANGED <<oldvars, kvars, rvars, gvars, yvars>>

\* the consumer asks for the next trade: the generator resumes after the yield
S_Resume ==
    /\ spc = "yielded"
    /\ spc' = "reading"
    /\ UNCHANGED <<has_stop, stop_set, sbackoff, sdelay, selapsed, smsgs, slast, strades, sfails, sconnects>>
    /\ UNCHANGED <<oldvars, kvars, rvars, gvars, yvars>>

\* the remote side closes the connection cleanly: the async for ends
S_Close ==
    /\ spc = "reading"
    /\ ElseBranch
    /\ slast' = "close"
    /\ UNCHANGED <<has_stop, stop_set, smsgs, strades, sfails, sconnects>>
    /\ UNCHANGED <<oldvars, kvars, rvars, gvars, yvars>>

\* the connection breaks or the protocol fails while reading
S_Error ==
    /\ spc = "reading"
    /\ ExceptBranch
    /\ slast' = "error"
    /\ UNCHANGED <<has_stop, stop_set, smsgs, strades, sfails, sconnects>>
    /\ UNCHANGED <<oldvars, kvars, rvars, gvars, yvars>>

\* the delay of the sleep in progress elapses
S_Elapse ==
    /\ spc = "sleep"
    /\ ~selapsed
    /\ selapsed' = TRUE
    /\ UNCHANGED <<spc, has_stop, stop_set, sbackoff, sdelay, smsgs, slast, strades, sfails, sconnects>>
    /\ UNCHANGED <<oldvars, kvars, rvars, gvars, yvars>>

\* await self._sleep(delay) returns; back to the while test
S_SleepDone ==
    /\ spc = "sleep"
    /\ WaitOver
    /\ spc' = "top"
    /\ selapsed' = FALSE
    /\ UNCHANGED <<has_stop, stop_set, sbackoff, sdelay, smsgs, slast, strades, sfails, sconnects>>
    /\ UNCHANGED <<oldvars, kvars, rvars, gvars, yvars>>

NextStream ==
    \/ S_SetStop
    \/ S_Top
    \/ S_Connect
    \/ S_Message
    \/ S_Resume
    \/ S_Close
    \/ S_Error
    \/ S_Elapse
    \/ S_SleepDone

SpecStream == InitStream /\ [][NextStream]_vars

\* C15: the trade stream never ends while the stop signal is unset or absent;
\* after every connection failure, protocol error, decoding error or clean
\* close another connection attempt is scheduled.
C15_StreamNeverEndsUnstopped ==
    /\ spc \in {"ended", "raised"} => StopIsSet
    /\ spc # "raised"

\* C16: after a connection failure or a clean close the streamer waits until
\* the delay has elapsed or the stop signal is set, whichever is first: with
\* the stop signal set the wait is over at once, and the sequence then ends
\* without a reconnect.
C16_WaitAbandonedAtStop ==
    /\ (spc = "sleep" /\ StopIsSet) => ENABLED S_SleepDone
    /\ (spc = "top" /\ StopIsSet) => ENABLED (S_Top /\ spc' = "ended")

\* C17: a message that fails to parse, lacks a required field or holds a value
\* that cannot be converted yields no trade and is skipped: the connection
\* stays open for the next message and no reconnect cycle starts.
C17_BadMessageSkipped ==
    [][(spc = "reading" /\ ~StopIsSet /\ smsgs' = smsgs + 1
          /\ slast' \in {"malformed", "missing", "unconvertible"}) =>
             /\ spc' = "reading"
             /\ strades' = strades
             /\ sbackoff' = sbackoff
             /\ sconnects' = sconnects
    ]_vars

\* C31: the streamer's backoff is reset whenever a connection is established:
\* the delay waited after an established connection ends (by an error or a
\* clean close) is the initial delay 1, and the n-th of n consecutive failed
\* connection attempts with no successful connect in between is followed by
\* the delay min(2^(n-1), 30).
C31_BackoffReset ==
    [][/\ (spc = "reading" /\ spc' \notin {"reading", "yielded", "ended"}) =>
             /\ spc' = "sleep"
             /\ sdelay' = 1
       /\ (spc = "connecting" /\ sfails' = sfails + 1 /\ ~StopIsSet) =>
             /\ spc' = "sleep"
             /\ sdelay' = Min(2 ^ (sfails' - 1), 30)
    ]_vars

\* C38: once the stop signal is set the streamer yields no further trade: a
\* message received after the signal was set ends the sequence instead of
\* being decoded and yielded, and no connection attempt is started once the
\* signal is set.
C38_NothingAfterStop ==
    [][stop_set =>
          /\ strades' = strades
          /\ spc' = "yielded" => spc = "yielded"
          /\ (spc = "reading" /\ smsgs' = smsgs + 1) => spc' = "ended"
          /\ spc' = "connecting" => spc = "connecting"
          /\ spc = "top" => spc' \in {"top", "ended"}
    ]_vars

\* after one trade was yielded the signal was set, and the next message, a
\* valid trade, ended the sequence
C38_Witness ==
    /\ stop_set
    /\ spc = "ended"
    /\ strades = 1
    /\ smsgs = 2
    /\ slast = "trade"

\* ============================================ BinanceFuturesIngestionService
RECURSIVE TasksOfAll(_)
\* for symbol in self._symbols: four create_task calls
TasksOfAll(S) ==
    IF S = {} THEN <<>>
    ELSE LET s == CHOOSE x \in S : TRUE IN TasksOf(s) \o TasksOfAll(S \ {s})

\* the ExponentialBackoff each loop creates, with the attempts it has reached
LoopBackoff(loop, n) ==
    CASE loop = "candles"       -> [initial |-> 2,  factor |-> 2, maximum |-> 120, attempts |-> n]
      [] loop = "open_interest" -> [initial |-> 5,  factor |-> 2, maximum |-> 180, attempts |-> n]
      [] loop = "funding"       -> [initial |-> 10, factor |-> 2, maximum |-> 300, attempts |-> n]
      [] loop = "trades"        -> [initial |-> 2,  factor |-> 2, maximum |-> 60,  attempts |-> n]

\* a task that has not completed
Live(p) == p \in {"poll", "stream", "insert", "wait"}

\* where a loop suspends first in an iteration
FirstAwait(id) == IF id[2] = "trades" THEN "stream" ELSE "poll"

\* while not self._stop_event.is_set(): the loop ends or starts an iteration
WhileTest(id) == IF stop_event THEN "done" ELSE FirstAwait(id)

\* _wait_or_sleep(duration) with duration > 0: returns at once when the flag
\* is set (the while test follows), else waits for the flag or the sleep
EnterWait(id) == IF stop_event THEN WhileTest(id) ELSE "wait"

\* start() goes on when tasks are listed
AlreadyRunningIgnored == FALSE

\* if self._tasks: raise RuntimeError
AlreadyRunning == tasks # <<>>

\* task.cancel() and the delivery of CancelledError at the task's suspension
\* point: the loops re-raise it; a task inside _wait_or_sleep is either at
\* asyncio.wait, where it is re-raised too, or inside `with
\* suppress(CancelledError)`, after which the loop reaches its while test with
\* the flag set and returns; a completed task is left as it is
CancelOf(p) ==
    IF p \in {"poll", "stream", "insert"} THEN {"cancelled"}
    ELSE IF p = "wait" THEN {"cancelled", "done"}
    ELSE {p}

InitService ==
    /\ tasks = <<>>
    /\ tpc = [id \in TaskIds |-> "none"]
    /\ tattempts = [id \in TaskIds |-> 0]
    /\ stop_event = FALSE
    /\ gpc = "idle"
    /\ gidx = 0
    /\ gres = "none"
    /\ gstarts = 0
    /\ gfails = 0
    /\ NoWriter
    /\ NoBackfill
    /\ NoLimiter
    /\ NoBackoff
    /\ NoRest
    /\ NoStream
    /\ NoLater

\* start(): RuntimeError when tasks are listed; else clear the flag and create
\* the four loop tasks of every symbol
G_Start ==
    /\ gpc = "idle"
    /\ IF AlreadyRunning
       THEN /\ gres' = "already_running"
            /\ UNCHANGED <<tasks, tpc, tattempts, stop_event, gstarts>>
       ELSE /\ gstarts < MaxStarts
            /\ gstarts' = gstarts + 1
            /\ stop_event' = FALSE
            /\ tasks' = tasks \o TasksOfAll(Symbols)
            /\ tpc' = [id \in TaskIds |-> FirstAwait(id)]
            /\ tattempts' = [id \in TaskIds |-> 0]
            /\ gres' = "started"
    /\ UNCHANGED <<gpc, gidx, gfails>>
    /\ UNCHANGED <<oldvars, kvars, rvars, svars, yvars>>

\* stop(): self._stop_event.set(); then the first task is cancelled and awaited
G_Stop ==
    /\ gpc = "idle"
    /\ stop_event' = TRUE
    /\ IF tasks = <<>>
       THEN /\ gres' = "stopped"
            /\ UNCHANGED <<tasks, tpc, gpc, gidx>>
       ELSE /\ gpc' = "stopping"
            /\ gidx' = 1
            /\ gres' = "none"
            /\ \E q \in CancelOf(tpc[tasks[1]]) : tpc' = [tpc EXCEPT ![tasks[1]] = q]
            /\ UNCHANGED tasks
    /\ UNCHANGED <<tattempts, gstarts, gfails>>
    /\ UNCHANGED <<oldvars, kvars, rvars, svars, yvars>>

\* `await task` is over: the task's exception, if it has one other than
\* CancelledError, leaves stop(); else the next task is cancelled and awaited,
\* or self._tasks.clear() after the last
G_Await ==
    /\ gpc = "stopping"
    /\ ~Live(tpc[tasks[gidx]])
    /\ IF tpc[tasks[gidx]] = "failed"
       THEN /\ gpc' = "idle"
            /\ gres' = "stop_raised"
            /\ gidx' = 0
            /\ UNCHANGED <<tasks, tpc>>
       ELSE IF gidx < Len(tasks)
       THEN /\ gidx' = gidx + 1
            /\ \E q \in CancelOf(tpc[tasks[gidx + 1]]) :
                  tpc' = [tpc EXCEPT ![tasks[gidx + 1]] = q]
            /\ UNCHANGED <<tasks, gpc, gres>>
       ELSE /\ tasks' = <<>>
            /\ gpc' = "idle"
            /\ gres' = "stopped"
            /\ gidx' = 0
            /\ UNCHANGED tpc
    /\ UNCHANGED <<tattempts, stop_event, gstarts, gfails>>
    /\ UNCHANGED <<oldvars, kvars, rvars, svars, yvars>>

\* except Exception: delay = backoff.next_delay(); await self._wait_or_sleep(delay);
\* next_delay raising completes the task with that exception
LoopExcept(id) ==
    LET out == NextDelayOf(LoopBackoff(id[2], tattempts[id])) IN
       /\ gfails < MaxFailures
       /\ gfails' = gfails + 1
       /\ tattempts' = [tattempts EXCEPT ![id] = out.backoff.attempts]
       /\ tpc' = [tpc EXCEPT ![id] = IF out.raised THEN "failed" ELSE EnterWait(id)]

\* a poll (_ingest_*_once) returns: backoff.reset() if rows were inserted,
\* then the wait of the loop
T_Polled(id) ==
    /\ tpc[id] = "poll"
    /\ \E inserted \in BOOLEAN :
          tattempts' = [tattempts EXCEPT ![id] = IF inserted THEN 0 ELSE @]
    /\ tpc' = [tpc EXCEPT ![id] = EnterWait(id)]
    /\ UNCHANGED <<tasks, stop_event, gpc, gidx, gres, gstarts, gfails>>
    /\ UNCHANGED <<oldvars, kvars, rvars, svars, yvars>>

\* a poll raises (REST error, storage error, conversion error)
T_PollFailed(id) ==
    /\ tpc[id] = "poll"
    /\ LoopExcept(id)
    /\ UNCHANGED <<tasks, stop_event, gpc, gidx, gres, gstarts>>
    /\ UNCHANGED <<oldvars, kvars, rvars, svars, yvars>>

\* the stream yields a trade: await self._repository.insert_trades(...)
T_Trade(id) ==
    /\ tpc[id] = "stream"
    /\ tpc' = [tpc EXCEPT ![id] = "insert"]
    /\ UNCHANGED <<tasks, tattempts, stop_event, gpc, gidx, gres, gstarts, gfails>>
    /\ UNCHANGED <<oldvars, kvars, rvars, svars, yvars>>

\* insert_trades returned: backoff.reset(); the next trade is asked for
T_Inserted(id) ==
    /\ tpc[id] = "insert"
    /\ tattempts' = [tattempts EXCEPT ![id] = 0]
    /\ tpc' = [tpc EXCEPT ![id] = "stream"]
    /\ UNCHANGED <<tasks, stop_event, gpc, gidx, gres, gstarts, gfails>>
    /\ UNCHANGED <<oldvars, kvars, rvars, svars, yvars>>

\* the stream or insert_trades raises
T_TradesFailed(id) ==
    /\ tpc[id] \in {"stream", "insert"}
    /\ LoopExcept(id)
    /\ UNCHANGED <<tasks, stop_event, gpc, gidx, gres, gstarts>>
    /\ UNCHANGED <<oldvars, kvars, rvars, svars, yvars>>

\* the stream ends: break when the flag is set, else
\* await self._wait_or_sleep(backoff.next_delay())
T_StreamEnded(id) ==
    /\ tpc[id] = "stream"
    /\ IF stop_event
       THEN /\ tpc' = [tpc EXCEPT ![id] = "done"]
            /\ UNCHANGED <<tattempts, gfails>>
       ELSE LoopExcept(id)
    /\ UNCHANGED <<tasks, stop_event, gpc, gidx, gres, gstarts>>
    /\ UNCHANGED <<oldvars, kvars, rvars, svars, yvars>>

\* _wait_or_sleep returns (the sleep is over, or the flag was set, and the
\* pending helper task was cancelled and awaited); the while test of the loop
T_Resumed(id) ==
    /\ tpc[id] = "wait"
    /\ tpc' = [tpc EXCEPT ![id] = WhileTest(id)]
    /\ UNCHANGED <<tasks, tattempts, stop_event, gpc, gidx, gres, gstarts, gfails>>
    /\ UNCHANGED <<oldvars, kvars, rvars, svars, yvars>>

NextService ==
    \/ G_Start
    \/ G_Stop
    \/ G_Await
    \/ \E id \in TaskIds : T_Polled(id)
    \/ \E id \in TaskIds : T_PollFailed(id)
    \/ \E id \in TaskIds : T_Trade(id)
    \/ \E id \in TaskIds : T_Inserted(id)
    \/ \E id \in TaskIds : T_TradesFailed(id)
    \/ \E id \in TaskIds : T_StreamEnded(id)
    \/ \E id \in TaskIds : T_Resumed(id)

SpecService == InitService /\ [][NextService]_vars

\* C18: start() clears the stop flag and creates exactly four loop tasks
\* (candles, open interest, funding, trades) for each symbol; called while
\* tasks are listed it fails, creates no task and changes no state; after
\* stop() has returned, start() succeeds again.
C18_StartContract ==
    [][/\ gstarts' = gstarts + 1 =>
             /\ tasks = <<>>
             /\ ~stop_event'
             /\ gres' = "started"
             /\ Len(tasks') = 4 * Cardinality(Symbols)
             /\ \A s \in Symbols : \A k \in LoopKinds :
                   /\ Cardinality({i \in 1..Len(tasks') : tasks'[i] = <<s, k>>}) = 1
                   /\ Live(tpc'[<<s, k>>])
                   /\ tattempts'[<<s, k>>] = 0
       /\ (gres' = "already_running" /\ gres # "already_running") =>
             /\ tasks # <<>>
             /\ UNCHANGED <<tasks, tpc, tattempts, stop_event, gstarts, gpc, gidx>>
       /\ (gres' \in {"started", "already_running"} /\ gres' # gres /\ tasks = <<>>) =>
             gres' = "started"
       /\ gres' = "stopped" => (gpc' = "idle" /\ tasks' = <<>>)
    ]_vars

\* the service was started, stopped and started again
C18_Witness ==
    /\ gstarts = 2
    /\ gres = "started"
    /\ ~stop_event
    /\ Len(tasks) = 4

\* C19: stop() sets the stop flag before cancelling any loop, cancels and
\* awaits every loop task and returns normally; when it returns every loop
\* task has finished and the task list is empty.
C19_StopCompletes ==
    /\ gres # "stop_raised"
    /\ gpc = "stopping" => stop_event
    /\ gres = "stopped" =>
          /\ tasks = <<>>
          /\ \A id \in TaskIds : ~Live(tpc[id])

\* C20: no loop task completes while the stop flag is unset and the task has
\* not been cancelled: a failed iteration is followed by a wait of the loop's
\* backoff delay and another iteration.
C20_LoopsNeverDie ==
    [][\A id \in TaskIds :
          /\ (Live(tpc[id]) /\ tpc'[id] \in {"done", "failed"}) => stop_event'
          /\ (Live(tpc[id]) /\ gfails' = gfails + 1 /\ tattempts'[id] # tattempts[id] /\ ~stop_event) =>
                tpc'[id] = "wait"
    ]_vars

\* ======================================= one live loop and its wait policy
\* configured poll intervals, in seconds
PollIntervals == {4, 30}

\* keys (open time, timestamp, funding time, trade id) of live records
LiveKeys == 0..MaxLiveKey

\* the rows one poll can store: at most two
RowSets == {S \in SUBSET LiveKeys : S # {} /\ Cardinality(S) <= 2}

\* the wait after a poll that ingested nothing: max(5.0, interval / 2) in the
\* candle loop, the poll interval in the open-interest and funding loops
EmptyWait(loop, interval) ==
    IF loop = "candles" THEN Max(5, interval \div 2) ELSE interval

\* the last stored key is requested again
StartTimeSame(store) == IF store = {} THEN NoKey ELSE MaxOf(store)

\* start_time = last + 1 if last is not None else None
StartTime(store) == IF store = {} THEN NoKey ELSE MaxOf(store) + 1

\* where the loop is after its while test: done, or in the first await of an
\* iteration
LoopTest(loop) ==
    IF pstop THEN "done" ELSE IF loop = "trades" THEN "stream" ELSE "poll"

\* await self._wait_or_sleep(d): at once over when d <= 0 or the flag is set,
\* and then the while test
WaitOrSleep(d) == IF d <= 0 \/ pstop THEN LoopTest(ploop) ELSE "wait"

\* the loop starts an iteration or waits: the cursor is read from the store
\* when a poll starts
Goes(to, store) ==
    /\ ppc' = to
    /\ pstart' = IF to = "poll" THEN StartTime(store) ELSE pstart

InitLoop ==
    /\ ploop \in LoopKinds
    /\ pinterval \in PollIntervals
    /\ pstop = FALSE
    /\ pstore \in {{}, {0}}
    /\ ppc = IF ploop = "trades" THEN "stream" ELSE "poll"
    /\ pstart = IF ploop = "trades" THEN NoKey ELSE StartTime(pstore)
    /\ pattempts = 0
    /\ pwait = NoKey
    /\ plast = "none"
    /\ ptrade = NoKey
    /\ NoWriter
    /\ NoBackfill
    /\ NoLimiter
    /\ NoBackoff
    /\ NoRest
    /\ NoStream
    /\ NoService
    /\ NoWait
    /\ NoRepo
    /\ NoRun
    /\ NoExchange

\* the stop flag is set
P_SetStop ==
    /\ ppc \notin {"none", "done", "failed"}
    /\ ~pstop
    /\ pstop' = TRUE
    /\ UNCHANGED <<ploop, pinterval, pstore, ppc, pstart, pattempts, pwait, plast, ptrade>>
    /\ UNCHANGED <<oldvars, kvars, rvars, svars, gvars, zvars, mvars, jvars, evars>>

\* except Exception: delay = backoff.next_delay(); await self._wait_or_sleep(delay)
P_Except ==
    LET out == NextDelayOf(LoopBackoff(ploop, pattempts)) IN
       /\ pattempts' = out.backoff.attempts
       /\ pwait' = out.delay
       /\ Goes(IF out.raised THEN "failed" ELSE WaitOrSleep(out.delay), pstore)

\* _ingest_*_once stored rows and returned True: backoff.reset(); wait the poll interval
P_Ingested ==
    /\ ppc = "poll"
    /\ \E rows \in RowSets :
          /\ pstore' = pstore \cup rows
          /\ Goes(WaitOrSleep(pinterval), pstore \cup rows)
    /\ plast' = "rows"
    /\ pattempts' = 0
    /\ pwait' = pinterval
    /\ UNCHANGED <<ploop, pinterval, pstop, ptrade>>
    /\ UNCHANGED <<oldvars, kvars, rvars, svars, gvars, zvars, mvars, jvars, evars>>

\* _ingest_*_once got no rows and returned False
P_Empty ==
    /\ ppc = "poll"
    /\ plast' = "empty"
    /\ pwait' = EmptyWait(ploop, pinterval)
    /\ Goes(WaitOrSleep(EmptyWait(ploop, pinterval)), pstore)
    /\ UNCHANGED <<ploop, pinterval, pstop, pstore, pattempts, ptrade>>
    /\ UNCHANGED <<oldvars, kvars, rvars, svars, gvars, zvars, mvars, jvars, evars>>

\* _ingest_*_once raised: the fetch, a conversion or the insert failed; nothing is stored
P_PollFailed ==
    /\ ppc = "poll"
    /\ plast' = "error"
    /\ P_Except
    /\ UNCHANGED <<ploop, pinterval, pstop, pstore, ptrade>>
    /\ UNCHANGED <<oldvars, kvars, rvars, svars, gvars, zvars, mvars, jvars, evars>>

\* the stream yields a trade: await self._repository.insert_trades(symbol, [trade])
P_Trade ==
    /\ ppc = "stream"
    /\ \E t \in LiveKeys : ptrade' = t
    /\ plast' = "trade"
    /\ ppc' = "insert"
    /\ UNCHANGED <<ploop, pinterval, pstop, pstore, pstart, pattempts, pwait>>
    /\ UNCHANGED <<oldvars, kvars, rvars, svars, gvars, zvars, mvars, jvars, evars>>

\* insert_trades returned: backoff.reset(); the next trade is asked of the same stream
P_Written ==
    /\ ppc = "insert"
    /\ pstore' = pstore \cup {ptrade}
    /\ pattempts' = 0
    /\ plast' = "written"
    /\ ppc' = "stream"
    /\ UNCHANGED <<ploop, pinterval, pstop, pstart, pwait, ptrade>>
    /\ UNCHANGED <<oldvars, kvars, rvars, svars, gvars, zvars, mvars, jvars, evars>>

\* the stream or insert_trades raised
P_TradesFailed ==
    /\ ppc \in {"stream", "insert"}
    /\ plast' = "error"
    /\ P_Except
    /\ UNCHANGED <<ploop, pinterval, pstop, pstore, ptrade>>
    /\ UNCHANGED <<oldvars, kvars, rvars, svars, gvars, zvars, mvars, jvars, evars>>

\* the stream ended: break when the flag is set, else
\* await self._wait_or_sleep(backoff.next_delay())
P_StreamEnded ==
    /\ ppc = "stream"
    /\ plast' = "ended"
    /\ IF pstop
       THEN ppc' = "done" /\ UNCHANGED <<pattempts, pwait, pstart>>
       ELSE P_Except
    /\ UNCHANGED <<ploop, pinterval, pstop, pstore, ptrade>>
    /\ UNCHANGED <<oldvars, kvars, rvars, svars, gvars, zvars, mvars, jvars, evars>>

\* _wait_or_sleep returns; the while test
P_Resumed ==
    /\ ppc = "wait"
    /\ Goes(LoopTest(ploop), pstore)
    /\ UNCHANGED <<ploop, pinterval, pstop, pstore, pattempts, pwait, plast, ptrade>>
    /\ UNCHANGED <<oldvars, kvars, rvars, svars, gvars, zvars, mvars, jvars, evars>>

NextLoop ==
    \/ P_SetStop
    \/ P_Ingested
    \/ P_Empty
    \/ P_PollFailed
    \/ P_Trade
    \/ P_Written
    \/ P_TradesFailed
    \/ P_StreamEnded
    \/ P_Resumed

SpecLoop == InitLoop /\ [][NextLoop]_vars
\* a poll of the loop ends: rows, nothing, or an exception
PollEnds(loops) == ploop \in loops /\ ppc = "poll" /\ ppc' # "poll"

\* the wait policy of CLAIMS: steady interval and reset after rows, half the
\* interval after nothing, the ladder's delay after an exception, and the loop
\* goes on
WaitPolicy(loops) ==
    PollEnds(loops) =>
       /\ plast' = "rows" => pattempts' = 0 /\ pwait' = pinterval
       /\ plast' = "empty" => 2 * pwait' = pinterval
       /\ plast' = "error" =>
             /\ ppc' # "failed"
             /\ pattempts' = pattempts + 1
             /\ pwait' = IdealDelay(LoopBackoff(ploop, 0).initial, LoopBackoff(ploop, 0).factor,
                                    LoopBackoff(ploop, 0).maximum, pattempts)

\* C21: after each candle poll the candle loop waits according to the outcome:
\* rows ingested => backoff reset and the steady interval; no rows => half the
\* steady interval; exception => the current backoff delay, and it retries.
C21_CandleWaitPolicy == [][WaitPolicy({"candles"})]_vars

\* C22: the open-interest loop and the funding loop follow the same wait policy
\* as the candle loop with their own intervals and ladders: steady interval and
\* reset after rows, half the interval after an empty poll, the current backoff
\* delay after an exception.
C22_SamePolicy == [][WaitPolicy({"open_interest", "funding"})]_vars

\* C23: the trade loop writes each trade before it asks for the next and resets
\* its backoff after each write; when the stream ends with the stop flag unset
\* it waits its current backoff delay and subscribes again; when the stream
\* ends with the flag set the loop ends without a further wait.
C23_TradeLoop ==
    [][ploop = "trades" =>
         /\ ppc = "insert" /\ ppc' = "stream" =>
               ptrade \in pstore' /\ pattempts' = 0
         /\ ppc = "stream" /\ plast' = "ended" /\ ppc' # "stream" =>
               IF pstop
               THEN ppc' = "done" /\ pwait' = pwait
               ELSE /\ ppc' = "wait"
                    /\ pwait' = IdealDelay(2, 2, 60, pattempts)
         /\ ppc = "wait" /\ ppc' # "wait" =>
               ppc' = IF pstop THEN "done" ELSE "stream"]_vars

\* C24: every live poll starts at the highest stored key of its instrument
\* and kind plus one, and without a start when nothing is stored; the cursor
\* is derived from the store at every poll, so a poll that fails or returns
\* nothing leaves the store and with it the next start as they were, and after
\* rows were stored the next poll starts one past the highest stored key.
C24_CursorFromStore ==
    /\ [](ppc = "poll" =>
            pstart = IF pstore = {} THEN NoKey
                     ELSE (CHOOSE k \in pstore : \A j \in pstore : j <= k) + 1)
    /\ [][PollEnds(LoopKinds) /\ plast' \in {"empty", "error"} => pstore' = pstore]_vars
    /\ [][PollEnds(LoopKinds) /\ plast' = "rows" =>
            pstore \subseteq pstore' /\ pstore' # {}]_vars

\* a poll starts one past the highest key after rows up to that key were
\* stored, and a poll after an empty or failed one starts where that one did
C24_Witness ==
    /\ ppc = "poll"
    /\ plast \in {"rows", "empty", "error"}
    /\ pstart = MaxLiveKey + 1

\* C35: every trade the stream yields to the trade loop ends up in the
\* repository unless the service is stopped first: while the loop waits for
\* the next trade of a subscription with the flag unset, the trade yielded
\* last has been written, also when its insert_trades call had failed.
C35_TradeNotDropped ==
    (ploop = "trades" /\ ppc = "stream" /\ ~pstop /\ ptrade # NoKey) => ptrade \in pstore

\* ---------------------------------------------------------------------------
\* BinanceFuturesIngestionService._wait_or_sleep: the wait for a duration or
\* for the stop flag.  Time is counted in whole seconds since the call; the
\* event loop runs every callback that is ready before it lets time pass.
\* ---------------------------------------------------------------------------

\* the durations asked for: none, and one to MaxDuration seconds
Durations == -1..MaxDuration

\* asyncio.wait returns when both tasks are done
AllCompleted(a, b) == a = "done" /\ b = "done"

\* asyncio.wait(..., return_when=FIRST_COMPLETED) returns
FirstCompleted(a, b) == a = "done" \/ b = "done"

\* if duration <= 0: return; if self._stop_event.is_set(): return
ReturnsAtOnce(d, stop) == d <= 0 \/ stop

\* for task in pending: task.cancel(); await task
CancelPending(t) == IF t = "pending" THEN "cancelled" ELSE t

InitWait ==
    /\ zpc = "idle"
    /\ zstop \in BOOLEAN
    /\ duration = 0
    /\ zelapsed = 0
    /\ zset_at = NoKey
    /\ stop_task = "none"
    /\ sleep_task = "none"
    /\ zcalls = 0
    /\ NoWriter
    /\ NoBackfill
    /\ NoLimiter
    /\ NoBackoff
    /\ NoRest
    /\ NoStream
    /\ NoService
    /\ NoLoop
    /\ NoRepo
    /\ NoRun
    /\ NoExchange

\* await self._wait_or_sleep(d), up to the await of asyncio.wait
Z_Call ==
    /\ zpc \in {"idle", "returned"}
    /\ zcalls < MaxWaits
    /\ \E d \in Durations :
          /\ duration' = d
          /\ IF ReturnsAtOnce(d, zstop)
             THEN /\ zpc' = "returned"
                  /\ stop_task' = "none"
                  /\ sleep_task' = "none"
             ELSE /\ zpc' = "wait"
                  /\ stop_task' = "pending"
                  /\ sleep_task' = "pending"
    /\ zelapsed' = 0
    /\ zset_at' = IF zstop THEN 0 ELSE NoKey
    /\ zcalls' = zcalls + 1
    /\ UNCHANGED zstop
    /\ UNCHANGED <<oldvars, kvars, rvars, svars, gvars, pvars, mvars, jvars, evars>>

\* self._stop_event.set(): the task waiting for the event is done
Z_SetStop ==
    /\ zpc \in {"idle", "wait", "returned"}
    /\ ~zstop
    /\ zstop' = TRUE
    /\ zset_at' = IF zpc = "wait" THEN zelapsed ELSE zset_at
    /\ stop_task' = IF stop_task = "pending" THEN "done" ELSE stop_task
    /\ UNCHANGED <<zpc, duration, zelapsed, sleep_task, zcalls>>
    /\ UNCHANGED <<oldvars, kvars, rvars, svars, gvars, pvars, mvars, jvars, evars>>

\* a second passes while asyncio.wait has nothing to return; the sleep task
\* is done when its duration has passed
Z_Tick ==
    /\ zpc = "wait"
    /\ ~FirstCompleted(stop_task, sleep_task)
    /\ zelapsed <= MaxDuration
    /\ zelapsed' = zelapsed + 1
    /\ sleep_task' = IF sleep_task = "pending" /\ zelapsed + 1 >= duration
                     THEN "done" ELSE sleep_task
    /\ UNCHANGED <<zpc, zstop, duration, zset_at, stop_task, zcalls>>
    /\ UNCHANGED <<oldvars, kvars, rvars, svars, gvars, pvars, mvars, jvars, evars>>

\* asyncio.wait returns: the pending task is cancelled and awaited, then return
Z_Wake ==
    /\ zpc = "wait"
    /\ FirstCompleted(stop_task, sleep_task)
    /\ stop_task' = CancelPending(stop_task)
    /\ sleep_task' = CancelPending(sleep_task)
    /\ zpc' = "returned"
    /\ UNCHANGED <<zstop, duration, zelapsed, zset_at, zcalls>>
    /\ UNCHANGED <<oldvars, kvars, rvars, svars, gvars, pvars, mvars, jvars, evars>>

\* the calling task is cancelled inside asyncio.wait: CancelledError leaves
\* _wait_or_sleep; asyncio.wait does not cancel the two tasks
Z_Cancelled ==
    /\ zpc = "wait"
    /\ zpc' = "cancelled"
    /\ UNCHANGED <<zstop, duration, zelapsed, zset_at, stop_task, sleep_task, zcalls>>
    /\ UNCHANGED <<oldvars, kvars, rvars, svars, gvars, pvars, mvars, jvars, evars>>

NextWait ==
    \/ Z_Call
    \/ Z_SetStop
    \/ Z_Tick
    \/ Z_Wake
    \/ Z_Cancelled

SpecWait == InitWait /\ [][NextWait]_vars

\* the seconds a call that returns is to have waited
DueWait ==
    IF duration <= 0 THEN 0
    ELSE IF zset_at # NoKey /\ zset_at < duration THEN zset_at
    ELSE duration

\* C25: _wait_or_sleep returns at once when the duration is <= 0 or the stop
\* flag is already set; otherwise it returns as soon as the duration has
\* elapsed or the flag is set, whichever is first, and never waits longer than
\* the duration.
C25_WaitOrStop ==
    /\ zpc = "returned" => zelapsed = DueWait
    /\ zpc = "wait" => /\ zelapsed <= duration
                       /\ zelapsed <= DueWait
                       /\ zelapsed = DueWait => ENABLED Z_Wake /\ ~ENABLED Z_Tick

\* a wait of three seconds was left after one, when the flag was set
C25_Witness ==
    /\ zpc = "returned"
    /\ duration = MaxDuration
    /\ zset_at = 1
    /\ zelapsed = 1
    /\ sleep_task = "cancelled"

\* C37: whenever _wait_or_sleep finishes, because the duration elapsed,
\* because the stop flag was set, or because the calling task was cancelled
\* by stop() (which sets the flag first) while waiting, neither helper task,
\* the stop-flag waiter or the sleep, is left pending.
C37_NoHelperLeft ==
    (zpc = "returned" \/ (zpc = "cancelled" /\ zstop)) =>
        /\ stop_task # "pending"
        /\ sleep_task # "pending"

\* ---------------------------------------------------------------------------
\* TimescaleRepository in memory mode (four stores: symbol -> key -> record,
\* one asyncio.Lock) with callers that are tasks of one event loop, next to a
\* DatasetWriter per symbol and kind that is given the same upserts.
\* ---------------------------------------------------------------------------

\* self._candles, self._trades, self._open_interest, self._funding
Stores == {"_candles", "_trades", "_open_interest", "_funding"}

\* the symbols callers pass
RawSymbols == {"btcusdt", "BTCUSDT", "ETHUSDT"}

\* symbol_key = symbol.upper()
Upper(symbol) == IF symbol = "btcusdt" THEN "BTCUSDT" ELSE symbol

Instruments == {Upper(s) : s \in RawSymbols}

\* one store and one symbol key
Pairs == Stores \X Instruments

\* the tasks that call the repository
RepoCallers == {1, 2}

\* records with key 0 (one of two payloads) or key 1; batches of up to two
RepoRecords == {Rec(0, 0, 0), Rec(0, 0, 1), Rec(1, 1, 0)}

\* no record, one record, one key twice (equal or different payloads), two keys
RepoBatches ==
    {b \in SeqsUpTo(RepoRecords, 2) : Len(b) = 2 => b[1].val = 0 /\ b[1].key <= b[2].key}

\* bucket.setdefault(key(record), record): the first record of a key is kept
MemoryPutKeepFirst(bucket, rec) ==
    IF \E r \in bucket : r.key = rec.key THEN bucket ELSE bucket \cup {rec}

\* bucket[key(record)] = record
MemoryPut(bucket, rec) == {r \in bucket : r.key # rec.key} \cup {rec}

\* for record in records: bucket[key(record)] = record
RECURSIVE MemoryUpsert(_, _)
MemoryUpsert(bucket, batch) ==
    IF batch = <<>> THEN bucket
    ELSE MemoryUpsert(MemoryPut(bucket, Head(batch)), Tail(batch))

\* latest_*: None for a missing or empty bucket, else max(store.keys())
MemoryLatest(bucket) == IF bucket = {} THEN NoKey ELSE MaxOf({r.key : r \in bucket})

\* DatasetWriter.upsert_many on the writer of the same symbol and kind
FileUpsert(w, batch) ==
    LET out == UpsertMany(w.records, w.max_key, FALSE, batch) IN
    [records |-> out.records, max_key |-> out.max_key]

\* an await between the records of the critical section
AwaitsInsideEach(batch) == batch # <<>>

\* the block under `async with self._memory_lock` has no await
AwaitsInside(batch) == FALSE

NoRequest == [store |-> "none", symbol |-> "none", batch |-> <<>>]

InitRepo ==
    /\ mstore = [p \in Pairs |-> {}]
    /\ fwriter = [p \in Pairs |-> [records |-> <<>>, max_key |-> NoKey]]
    /\ memory_lock = 0
    /\ mpc = [c \in RepoCallers |-> "idle"]
    /\ mreq = [c \in RepoCallers |-> NoRequest]
    /\ mlog = <<>>
    /\ NoWriter
    /\ NoBackfill
    /\ NoLimiter
    /\ NoBackoff
    /\ NoRest
    /\ NoStream
    /\ NoService
    /\ NoLoop
    /\ NoWait
    /\ NoRun
    /\ NoExchange

\* a task is created that calls insert_candles / insert_trades /
\* insert_open_interest / insert_funding_rates(symbol, records)
M_Call(c) ==
    /\ mpc[c] \in {"idle", "done"}
    /\ Len(mlog) + Cardinality({d \in RepoCallers : mpc[d] \in {"called", "waiting", "inside"}})
          < MaxUpserts
    /\ \E store \in Stores, symbol \in RawSymbols, batch \in RepoBatches :
          mreq' = [mreq EXCEPT ![c] = [store |-> store, symbol |-> symbol, batch |-> batch]]
    /\ mpc' = [mpc EXCEPT ![c] = "called"]
    /\ UNCHANGED <<mstore, fwriter, memory_lock, mlog>>
    /\ UNCHANGED <<oldvars, kvars, rvars, svars, gvars, pvars, zvars, jvars, evars>>

\* the writes of _memory_upsert, with the same batch given to the file writer
Written(c, key) ==
    /\ mstore' = [mstore EXCEPT ![key] = MemoryUpsert(@, mreq[c].batch)]
    /\ fwriter' = [fwriter EXCEPT ![key] = FileUpsert(@, mreq[c].batch)]
    /\ mlog' = Append(mlog, <<key, mreq[c].batch>>)
    /\ mpc' = [mpc EXCEPT ![c] = "done"]
    /\ mreq' = [mreq EXCEPT ![c] = NoRequest]

\* the event loop runs the task up to its next suspension:
\* symbol_key = symbol.upper(); if not records: return; async with the lock
M_Run(c) ==
    LET key == <<mreq[c].store, Upper(mreq[c].symbol)>> IN
    /\ mpc[c] \in {"called", "waiting", "inside"}
    /\ mpc[c] = "waiting" => memory_lock = 0
    /\ IF mpc[c] = "inside"
       THEN /\ Written(c, key)
            /\ memory_lock' = 0
       ELSE IF mreq[c].batch = <<>>
       THEN /\ mpc' = [mpc EXCEPT ![c] = "done"]
            /\ mreq' = [mreq EXCEPT ![c] = NoRequest]
            /\ UNCHANGED <<mstore, fwriter, memory_lock, mlog>>
       ELSE IF memory_lock # 0
       THEN /\ mpc' = [mpc EXCEPT ![c] = "waiting"]
            /\ UNCHANGED <<mstore, fwriter, memory_lock, mlog, mreq>>
       ELSE IF AwaitsInside(mreq[c].batch)
       THEN /\ mpc' = [mpc EXCEPT ![c] = "inside"]
            /\ memory_lock' = c
            /\ UNCHANGED <<mstore, fwriter, mlog, mreq>>
       ELSE /\ Written(c, key)
            /\ UNCHANGED memory_lock
    /\ UNCHANGED <<oldvars, kvars, rvars, svars, gvars, pvars, zvars, jvars, evars>>

NextRepo == \E c \in RepoCallers : M_Call(c) \/ M_Run(c)

SpecRepo == InitRepo /\ [][NextRepo]_vars
\* the records given to one store and symbol, in the order they were applied
RECURSIVE LogFor(_, _)
LogFor(p, log) ==
    IF log = <<>> THEN <<>>
    ELSE (IF Head(log)[1] = p THEN Head(log)[2] ELSE <<>>) \o LogFor(p, Tail(log))

\* of every key the record written last
LastOf(s) == {s[i] : i \in {j \in 1..Len(s) : \A h \in (j + 1)..Len(s) : s[h].key # s[j].key}}

\* an upsert was applied in this step
Applied == Len(mlog') = Len(mlog) + 1

\* C26: the in-memory repository and the file backend implement the same
\* contract: after the same upserts for one instrument and kind both hold the
\* same key -> record map (one record per key, the last written value, an
\* identical record changing nothing) and report the same latest key (the
\* maximum, or none when nothing is stored); an upsert for one instrument or
\* kind leaves the records of every other one unchanged.
C26_SameContract ==
    /\ [](\A p \in Pairs :
            /\ mstore[p] = Range(fwriter[p].records)
            /\ Cardinality(mstore[p]) = Len(fwriter[p].records)
            /\ \A r, q \in mstore[p] : r.key = q.key => r = q
            /\ mstore[p] = LastOf(LogFor(p, mlog))
            /\ MemoryLatest(mstore[p]) = fwriter[p].max_key
            /\ MemoryLatest(mstore[p]) =
                  IF LogFor(p, mlog) = <<>> THEN NoKey
                  ELSE MaxOf({LogFor(p, mlog)[i].key : i \in 1..Len(LogFor(p, mlog))}))
    /\ [][Applied =>
            LET p == mlog'[Len(mlog')][1]
                batch == mlog'[Len(mlog')][2]
            IN /\ \A q \in Pairs \ {p} : mstore'[q] = mstore[q] /\ fwriter'[q] = fwriter[q]
               /\ Range(batch) \subseteq mstore[p] =>
                     mstore'[p] = mstore[p] /\ fwriter'[p] = fwriter[p]]_vars

\* both backends hold two records for one symbol and kind after a record was
\* overwritten, while another kind and another symbol hold nothing
C26_Witness ==
    /\ mstore[<<"_candles", "BTCUSDT">>] = {Rec(0, 0, 1), Rec(1, 1, 0)}
    /\ Len(mlog) = 2
    /\ Rec(0, 0, 0) \in Range(mlog[1][2])
    /\ fwriter[<<"_candles", "BTCUSDT">>].max_key = 1
    /\ mstore[<<"_trades", "BTCUSDT">>] = {}
    /\ mstore[<<"_candles", "ETHUSDT">>] = {}

KindOrder == <<"candles", "trades", "open_interest", "funding">>

\* the first enabled kind after position i, 0 when there is none
NextKind(i, enabled) ==
    IF \E j \in (i + 1)..Len(KindOrder) : KindOrder[j] \in enabled
    THEN CHOOSE j \in (i + 1)..Len(KindOrder) :
            /\ KindOrder[j] \in enabled
            /\ \A h \in (i + 1)..(j - 1) : KindOrder[h] \notin enabled
    ELSE 0

\* the window of every run: config.start_time .. config.end_time
RunStart == 1
RunEnd == MaxRunKey

HighestOf(keys) == IF keys = {} THEN NoKey ELSE MaxOf(keys)

\* close() only after the kinds completed
ClosesOnSuccess(err) == err = "none"

\* finally: self._client.close()
Closes(err) == TRUE

\* the failed request is made again
AfterFetchErrorRetry(k) == "fetch"

\* BinanceAPIError leaves _run_* and the try block
AfterFetchError(k) == "finally"

NoFirst == [k \in Kinds |-> <<>>]

InitRun ==
    /\ include \in SUBSET Kinds
    /\ jrun = 1
    /\ jresume \in BOOLEAN
    /\ jpc = "try"
    /\ jidx = 0
    /\ jcursor = NoKey
    /\ jfrom_id = NoKey
    /\ jfiles \in {[k \in Kinds |-> {}], [k \in Kinds |-> {0}]}
    /\ jfiles0 = jfiles
    /\ jbatch = {}
    /\ closes = 0
    /\ jerr = "none"
    /\ reports = {}
    /\ jfetches = 0
    /\ jsnap = <<>>
    /\ jfirst = NoFirst
    /\ NoWriter
    /\ NoBackfill
    /\ NoLimiter
    /\ NoBackoff
    /\ NoRest
    /\ NoStream
    /\ NoService
    /\ NoLoop
    /\ NoWait
    /\ NoRepo
    /\ NoExchange

\* where a kind's loop is after its cursor moved: while cursor <= end_ms
LoopAt(cur) == IF cur <= RunEnd THEN "fetch" ELSE "kind_done"

\* the next `if config.include_*`: _run_* builds its writer and its cursor,
\* or the try block is left
J_Begin ==
    /\ jpc = "try"
    /\ LET j == NextKind(jidx, include) IN
       IF j = 0
       THEN /\ jpc' = "finally"
            /\ UNCHANGED <<jidx, jcursor, jfrom_id, jfirst>>
       ELSE LET k == KindOrder[j]
                highest == HighestOf(jfiles[k])
                cur == EffectiveStart(k, jresume, RunStart, highest)
            IN /\ jidx' = j
               /\ jcursor' = cur
               /\ jfrom_id' = InitialFromId(k, jresume, highest)
               /\ jpc' = LoopAt(cur)
               /\ jfirst' = jfirst
    /\ UNCHANGED <<include, jrun, jresume, jfiles, jfiles0, jbatch, closes, jerr, reports, jfetches, jsnap>>
    /\ UNCHANGED <<oldvars, kvars, rvars, svars, gvars, pvars, zvars, mvars, evars>>

\* self._client.fetch_*: BinanceAPIError, no rows, or rows of the window
J_Fetch ==
    /\ jpc = "fetch"
    /\ jfetches < MaxFetches
    /\ LET k == KindOrder[jidx]
           target_end == TargetEnd(k, jcursor, RunEnd)
       IN /\ jfetches' = jfetches + 1
          /\ jfirst' = IF jfirst[k] = <<>>
                       THEN [jfirst EXCEPT ![k] = <<jcursor, jfrom_id>>] ELSE jfirst
          /\ \/ /\ jerr' = "fetch"
                /\ jpc' = AfterFetchError(k)
                /\ jsnap' = [fetches |-> jfetches + 1, files |-> jfiles, reports |-> reports]
                /\ UNCHANGED <<jcursor, jbatch>>
             \/ /\ jbatch' = {}
                /\ IF k = "candles"
                   THEN jpc' = "kind_done" /\ UNCHANGED jcursor
                   ELSE /\ jcursor' = NextCursorEmpty(k, jcursor, target_end)
                        /\ jpc' = LoopAt(NextCursorEmpty(k, jcursor, target_end))
                /\ UNCHANGED <<jerr, jsnap>>
             \/ /\ \E rows \in SUBSET (jcursor..target_end) :
                      /\ rows # {}
                      /\ Cardinality(rows) <= MaxBatch
                      /\ jbatch' = rows
                /\ jpc' = "transform"
                /\ UNCHANGED <<jcursor, jerr, jsnap>>
    /\ UNCHANGED <<include, jrun, jresume, jidx, jfrom_id, jfiles, jfiles0, closes, reports>>
    /\ UNCHANGED <<oldvars, kvars, rvars, svars, gvars, pvars, zvars, mvars, evars>>

\* records = [self._transform_*(entry) for entry in batch]: a row that cannot
\* be converted raises
J_Transform ==
    /\ jpc = "transform"
    /\ \/ /\ jerr' = "transform"
          /\ jpc' = "finally"
          /\ jsnap' = [fetches |-> jfetches, files |-> jfiles, reports |-> reports]
       \/ /\ jpc' = "write"
          /\ UNCHANGED <<jerr, jsnap>>
    /\ UNCHANGED <<include, jrun, jresume, jidx, jcursor, jfrom_id, jfiles, jfiles0, jbatch, closes,
                   reports, jfetches, jfirst>>
    /\ UNCHANGED <<oldvars, kvars, rvars, svars, gvars, pvars, zvars, mvars, evars>>

\* writer.upsert_many(records); writer.flush(): the file is replaced, or the
\* flush raises (OSError) before the replace; then the cursor moves
J_Write ==
    /\ jpc = "write"
    /\ LET k == KindOrder[jidx]
           cur == NextCursorAfter(k, [ts |-> MaxOf(jbatch)])
       IN \/ /\ jerr' = "write"
             /\ jpc' = "finally"
             /\ jsnap' = [fetches |-> jfetches, files |-> jfiles, reports |-> reports]
             /\ UNCHANGED <<jfiles, jcursor, jfrom_id>>
          \/ /\ jfiles' = [jfiles EXCEPT ![k] = @ \cup jbatch]
             /\ jcursor' = cur
             /\ jfrom_id' = NoKey
             /\ jpc' = LoopAt(cur)
             /\ UNCHANGED <<jerr, jsnap>>
    /\ UNCHANGED <<include, jrun, jresume, jidx, jfiles0, jbatch, closes, reports, jfetches, jfirst>>
    /\ UNCHANGED <<oldvars, kvars, rvars, svars, gvars, pvars, zvars, mvars, evars>>

\* writer.flush(); return report: reports[kind] = ...
J_KindDone ==
    /\ jpc = "kind_done"
    /\ reports' = reports \cup {KindOrder[jidx]}
    /\ jpc' = "try"
    /\ UNCHANGED <<include, jrun, jresume, jidx, jcursor, jfrom_id, jfiles, jfiles0, jbatch, closes,
                   jerr, jfetches, jsnap, jfirst>>
    /\ UNCHANGED <<oldvars, kvars, rvars, svars, gvars, pvars, zvars, mvars, evars>>

\* finally: self._client.close(); then return BackfillReport(...) or the
\* exception goes on to the caller
J_Finally ==
    /\ jpc = "finally"
    /\ closes' = IF Closes(jerr) THEN closes + 1 ELSE closes
    /\ jpc' = IF jerr = "none" THEN "returned" ELSE "raised"
    /\ UNCHANGED <<include, jrun, jresume, jidx, jcursor, jfrom_id, jfiles, jfiles0, jbatch, jerr,
                   reports, jfetches, jsnap, jfirst>>
    /\ UNCHANGED <<oldvars, kvars, rvars, svars, gvars, pvars, zvars, mvars, evars>>

\* the command is run again with resume enabled, with a new client and job,
\* on the dataset files the failed run left
J_Resume ==
    /\ jpc = "raised"
    /\ jrun = 1
    /\ jrun' = 2
    /\ jresume' = TRUE
    /\ jpc' = "try"
    /\ jidx' = 0
    /\ jcursor' = NoKey
    /\ jfrom_id' = NoKey
    /\ jbatch' = {}
    /\ closes' = 0
    /\ jerr' = "none"
    /\ reports' = {}
    /\ jfetches' = 0
    /\ jfirst' = NoFirst
    /\ jfiles0' = jfiles
    /\ UNCHANGED <<include, jfiles, jsnap>>
    /\ UNCHANGED <<oldvars, kvars, rvars, svars, gvars, pvars, zvars, mvars, evars>>

NextJob ==
    \/ J_Begin
    \/ J_Fetch
    \/ J_Transform
    \/ J_Write
    \/ J_KindDone
    \/ J_Finally
    \/ J_Resume

SpecRun == InitRun /\ [][NextJob]_vars

\* C28: run() calls close() on its REST client exactly once on every exit
\* path: after all enabled kinds completed, and when a fetch, a transform or
\* a write raises in any kind.
C28_ClosedOnce ==
    /\ jpc \in {"returned", "raised"} => closes = 1
    /\ jpc \in {"try", "fetch", "transform", "write", "kind_done", "finally"} => closes = 0
    /\ jpc = "returned" => jerr = "none" /\ reports = include
    /\ jpc = "raised" => jerr \in {"fetch", "transform", "write"}

\* the run was left by a failed write of the last kind, after the three kinds
\* before it completed, and the client was closed
C28_Witness ==
    /\ jpc = "raised"
    /\ jerr = "write"
    /\ jidx = 4
    /\ reports = {"candles", "trades", "open_interest"}
    /\ closes = 1

\* C29: when a fetch fails with a REST error the job does not retry it: run()
\* makes no further fetch or write for that kind or a later one, returns no
\* report and passes the error to the caller; every batch flushed before the
\* failure stays in its dataset file, and a later run with resume enabled
\* goes on after the last persisted key.
C29_FailsFast ==
    /\ [](jerr = "fetch" =>
            /\ jpc \in {"finally", "raised"}
            /\ jfetches = jsnap.fetches
            /\ jfiles = jsnap.files
            /\ reports = jsnap.reports)
    /\ [][jerr = "fetch" /\ jpc = "finally" => jpc' = "raised"]_vars
    /\ [][\A k \in Kinds : jfiles[k] \subseteq jfiles'[k]]_vars
    /\ [][jrun = 1 /\ jrun' = 2 => jfiles0' = jsnap.files]_vars
    /\ [](jrun = 2 =>
            \A k \in Kinds :
               jfirst[k] # <<>> /\ jfiles0[k] # {} =>
                  \/ jfirst[k][1] > MaxOf(jfiles0[k])
                  \/ jfirst[k][2] = MaxOf(jfiles0[k]) + 1)

\* the second candle fetch failed after the first batch was flushed, and the
\* resumed run asked for candles from the key after that batch
C29_Witness ==
    /\ jrun = 2
    /\ jfiles0["candles"] = {1}
    /\ jfirst["candles"] = <<2, NoKey>>
    /\ jfirst["trades"] # <<>>
\* C30: within one call of the live client the sleep before the k-th retry is
\* min(backoff_seconds * backoff_factor^(k-1), max_backoff_seconds) for every
\* backoff_seconds >= 0, with no sleep when that value is 0, and the schedule
\* starts again at backoff_seconds in every new call.
C30_CallBackoff ==
    [][rclient.kind = "live" /\ rpc = "acquire" /\ rpc' = "loop" =>
          LET due == Min(rclient.backoff_seconds * Pow(rclient.backoff_factor, attempt - 1),
                         rclient.max_backoff_seconds)
          IN rsleeps' = IF due > 0 THEN Append(rsleeps, due) ELSE rsleeps]_vars

\* ---------------------------------------------------------------------------
\* One _run_* loop of the backfill job against an exchange that holds a fixed
\* list of rows and answers each request with the first `limit` rows, in
\* ascending order, whose time lies in the requested window.  A row is
\* [key, ts, ok]: the natural key (agg_id for trades, the time otherwise), the
\* range field, and whether the payload has every required field.
\* ---------------------------------------------------------------------------

\* config.start_time of the run, with no dataset file to resume from
ExStart == 1

\* a payload of the exchange
Row(key, t, complete) == [key |-> key, ts |-> t, ok |-> complete]

\* non-decreasing times; ids ascend with time, and only trades share a time
Ascending(ts, k) ==
    \A i \in 1..(Len(ts) - 1) : IF k = "trades" THEN ts[i] <= ts[i + 1] ELSE ts[i] < ts[i + 1]

\* the rows an exchange can hold for kind k: at most MaxRows, at most one of
\* them incomplete
ExchangeData(k) ==
    {[i \in 1..Len(ts) |-> Row(IF k = "trades" THEN i ELSE ts[i], ts[i], i # bad)] :
        ts \in {s \in SeqsUpTo(1..ExEnd, MaxRows) : Ascending(s, k)}, bad \in 0..MaxRows}

\* GET with startTime, endTime and limit
ApiAnswer(data, start_time, end_time, limit) ==
    LET hit == SelectSeq(data, LAMBDA r : start_time <= r.ts /\ r.ts <= end_time)
    IN SubSeq(hit, 1, Min(limit, Len(hit)))

\* window_ms of the loop
WindowOf(k, period_ms, limit) ==
    CASE k = "trades" -> HourMs
      [] k = "open_interest" -> period_ms * limit
      [] k = "funding" -> 8 * HourMs * limit
      [] k = "candles" -> 0

\* end_time of the request
RequestEnd(k, cur, end, period_ms, limit) ==
    IF k = "candles" THEN end ELSE Min(cur + WindowOf(k, period_ms, limit), end)

\* the cursor after `if not batch` / `if not records`
AfterEmpty(k, cur, target_end, period_ms) ==
    CASE k = "candles" -> cur + IntervalMs
      [] k = "trades" -> target_end + 1
      [] k = "open_interest" -> target_end + period_ms
      [] k = "funding" -> target_end + 1

\* the cursor after a persisted batch whose last record has time t
AfterBatch(k, t, period_ms) ==
    CASE k = "candles" -> t + IntervalMs
      [] k = "trades" -> t + 1
      [] k = "open_interest" -> t + period_ms
      [] k = "funding" -> t + 1

\* records = [self._transform_*(entry) for entry in batch]: payload[10] or
\* payload["T"] of an incomplete payload raises IndexError / KeyError
TransformAll(batch) ==
    IF \E i \in 1..Len(batch) : ~batch[i].ok
    THEN [ok |-> FALSE, rows |-> <<>>]
    ELSE [ok |-> TRUE, rows |-> batch]

\* records = [item for item in records if batch_cursor <= item[range_field] <= end_ms]
KeepInRange(rows, batch_cursor, end) ==
    SelectSeq(rows, LAMBDA r : batch_cursor <= r.ts /\ r.ts <= end)

\* while cursor <= end_ms
WhileCursor(cur) == IF cur <= ExEnd THEN "loop" ELSE "returned"

InitExchange ==
    /\ ekind \in Kinds
    /\ eperiod \in {1, 2}
    /\ elimit \in 1..MaxBatch
    /\ edata \in ExchangeData(ekind)
    /\ ecursor = ExStart
    /\ epc = "loop"
    /\ ewindows = <<>>
    /\ efile = {}
    /\ elast = "none"
    /\ NoWriter
    /\ NoBackfill
    /\ NoLimiter
    /\ NoBackoff
    /\ NoRest
    /\ NoStream
    /\ NoService
    /\ NoLoop
    /\ NoWait
    /\ NoRepo
    /\ NoRun

\* one iteration of the while loop: fetch, transform, filter, and then no
\* rows (the cursor moves to the next window; an empty candle batch ends the
\* loop), an exception, or upsert_many, flush and the cursor past the batch
E_Iterate(outcome) ==
    /\ epc = "loop"
    /\ LET target_end == RequestEnd(ekind, ecursor, ExEnd, eperiod, elimit)
           batch == ApiAnswer(edata, ecursor, target_end, elimit)
           out == TransformAll(batch)
           kept == KeepInRange(out.rows, ecursor, ExEnd)
       IN /\ ewindows' = Append(ewindows, <<ecursor, target_end>>)
          /\ IF batch = <<>> /\ ekind = "candles" THEN
                /\ outcome = "empty"
                /\ epc' = "returned"
                /\ UNCHANGED <<ecursor, efile>>
             ELSE IF ~out.ok THEN
                /\ outcome = "raised"
                /\ epc' = "raised"
                /\ UNCHANGED <<ecursor, efile>>
             ELSE IF kept = <<>> THEN
                /\ outcome = "empty"
                /\ ecursor' = AfterEmpty(ekind, ecursor, target_end, eperiod)
                /\ epc' = WhileCursor(AfterEmpty(ekind, ecursor, target_end, eperiod))
                /\ UNCHANGED efile
             ELSE
                /\ outcome = "rows"
                /\ efile' = efile \cup {kept[i].key : i \in 1..Len(kept)}
                /\ ecursor' = AfterBatch(ekind, kept[Len(kept)].ts, eperiod)
                /\ epc' = WhileCursor(AfterBatch(ekind, kept[Len(kept)].ts, eperiod))
    /\ elast' = outcome
    /\ UNCHANGED <<ekind, eperiod, elimit, edata>>
    /\ UNCHANGED <<oldvars, kvars, rvars, svars, gvars, pvars, zvars, mvars, jvars>>

\* the window had no in-range row
E_Empty ==
    /\ epc = "loop"
    /\ E_Iterate("empty")

\* a transform raised: the exception leaves _run_* and run()
E_Raise ==
    /\ epc = "loop"
    /\ E_Iterate("raised")

\* the batch was persisted
E_Persist ==
    /\ epc = "loop"
    /\ E_Iterate("rows")

NextExchange ==
    \/ E_Empty
    \/ E_Raise
    \/ E_Persist

SpecExchange == InitExchange /\ [][NextExchange]_vars

\* the complete rows of a window's answer
ValidOf(batch) == {batch[i].key : i \in {j \in 1..Len(batch) : batch[j].ok}}

\* C32: when a response batch holds a payload that lacks required fields,
\* that payload is skipped and the valid records of the batch are persisted;
\* it never makes the window fail and never keeps the cursor from advancing.
C32_MalformedSkipped ==
    [][epc = "loop" =>
          LET target_end == RequestEnd(ekind, ecursor, ExEnd, eperiod, elimit)
              batch == ApiAnswer(edata, ecursor, target_end, elimit)
          IN (\E i \in 1..Len(batch) : ~batch[i].ok) =>
                /\ epc' # "raised"
                /\ ValidOf(batch) \subseteq efile'
                /\ ecursor' > ecursor
    ]_vars

\* every payload of the exchange is complete
AllComplete == \A i \in 1..Len(edata) : edata[i].ok

\* C33: a trades backfill over [start, end] against an exchange that answers
\* each request with the first `limit` trades (ascending by id) of the
\* requested window ends with every trade of [start, end] persisted, trades
\* that share a millisecond with the last trade of a truncated batch included.
C33_NoBoundaryGap ==
    (ekind = "trades" /\ epc = "returned" /\ AllComplete) =>
        \A i \in 1..Len(edata) :
           (ExStart <= edata[i].ts /\ edata[i].ts <= ExEnd) => edata[i].key \in efile

\* the times of the persisted records
PersistedTs == {edata[i].ts : i \in {j \in 1..Len(edata) : edata[j].key \in efile}}

\* time t lies in a requested window or at or below a persisted key
Covered(t) ==
    \/ \E i \in 1..Len(ewindows) : ewindows[i][1] <= t /\ t <= ewindows[i][2]
    \/ \E q \in PersistedTs : t <= q

\* C34: for trades, open interest and funding, a request window [cursor,
\* target_end] without an in-range record is followed by a request starting
\* at target_end + 1, and every key of [start, end] the cursor has passed
\* lies in a requested window or at or below a persisted key.
C34_WindowsContiguous ==
    /\ [](ekind \in {"trades", "open_interest", "funding"} =>
            \A t \in ExStart..ExEnd : t < ecursor => Covered(t))
    /\ [][(ekind \in {"trades", "open_interest", "funding"} /\ epc = "loop" /\ elast' = "empty") =>
            ecursor' = ewindows'[Len(ewindows')][2] + 1]_vars
====
